---------------------------- MODULE Spec2Model ----------------------------
(***************************************************************************)
(* Model of the adaptive control engine of EADA Pro:                       *)
(*   - BrightnessController / VolumeController (stability gate, curve      *)
(*     mapping, actuator write),                                           *)
(*   - GestureController (finger-count classifier with cooldown).          *)
(*                                                                         *)
(* Units.  Time is counted in half seconds (time.time() read once per      *)
(* call).     Distances are whole centimetres; the code keeps them in     *)
(* metres as distance / 100.0 and compares differences with 0.05, which    *)
(* the operator Below5cm reproduces including the IEEE rounding of the     *)
(* subtraction.  Brightness (percent) and volume (0.0 .. 1.0) are both     *)
(* kept in hundredths of a percent of full scale: 50 % = 0.5 = 5000.       *)
(***************************************************************************)
EXTENDS Integers, Sequences, FiniteSets, TLC

\* ------------------------------------------------------------------ bounds
MaxTime == 6
MaxDt == 2
MaxWriteFailures == 1
StreakCap == 2
MaxStableFrames == 3
MaxSysTime == 8
MaxModeTime == 3
MaxCalls == 2
MaxFaces == 2
MaxReturnTime == 13
MaxTrail == 3

\* ------------------------------------------------------- program constants
None == -1
STABLE_TIME_THRESHOLD == 3
MIN_DISTANCE_CM == 25
MAX_DETECTION_DISTANCE == 400
BRIGHTNESS_MIN == 2000
BRIGHTNESS_MAX == 10000
BRIGHTNESS_STEP == 200
BRIGHTNESS_SMOOTHING == 3
BRIGHTNESS_CLOSE == 30
BRIGHTNESS_FAR == 100
VOLUME_MIN == 1500
VOLUME_MAX == 10000
VOLUME_STEP == 200
VOLUME_SMOOTHING == 3
HISTORY_MAXLEN == 10
cooldown_seconds == 4
stability_threshold == 2
ABSENCE_TIMEOUT == 6
\* Weights in tenths, the threshold in cm, the ratio in hundredths.
DISTANCE_WEIGHT_NEAR == 20
DISTANCE_WEIGHT_FAR == 10
DISTANCE_THRESHOLD_NEAR == 100
CENTER_WEIGHT == 15
EDGE_WEIGHT == 10
CENTER_REGION_RATIO == 60
CAMERA_WIDTH == 960
DARK_THRESHOLD == 50
BRIGHT_THRESHOLD == 200

\* Raw distances (cm) fed to the controllers.
Distances == {93, 98, 100, 103, 106, 150}

\* Per-finger flags [thumb, index, middle, ring, pinky] that _count_fingers
\* may derive from the landmarks of a detected hand.
FingerVectors ==
    {<<0, 0, 0, 0, 0>>, <<0, 1, 0, 0, 0>>, <<0, 1, 1, 0, 0>>,
     <<0, 1, 1, 1, 0>>, <<0, 1, 1, 1, 1>>, <<1, 1, 1, 1, 1>>}

\* Wrist positions, percent of the frame width (the height is kept at 50).
XPercents == {20, 60}

Abs(x) == IF x < 0 THEN -x ELSE x
Min2(a, b) == IF a < b THEN a ELSE b
Max2(a, b) == IF a > b THEN a ELSE b
Clamp(lo, x, hi) == Max2(lo, Min2(x, hi))

\* Pairs of modelled distances exactly 5 cm apart for which the double
\* subtraction a/100.0 - b/100.0 rounds to a value below 0.05
\* (0.98 - 0.93 = 0.04999999999999993).
RoundsBelow == {<<93, 98>>, <<98, 93>>}

\* abs(a/100.0 - b/100.0) < 0.05 as the code evaluates it; 0.05 is both
\* settings.DISTANCE_GRACE_RANGE and the literal movement threshold.
Below5cm(a, b) ==
    \/ Abs(a - b) < 5
    \/ Abs(a - b) = 5 /\ <<a, b>> \in RoundsBelow

\* deque(maxlen=10).append
DequeAppend(h, x) ==
    IF Len(h) < HISTORY_MAXLEN THEN Append(h, x) ELSE Append(Tail(h), x)


\* --------------------------------------------------- BrightnessController
\* Distances in half centimetres above MIN_DISTANCE_CM, after the clip of
\* the normalised distance to [0, 1]: 0 at or below 25 cm, 750 at or above
\* 400 cm.
ClippedHalfCm(h) ==
    Clamp(2 * MIN_DISTANCE_CM, h, 2 * MAX_DETECTION_DISTANCE) - 2 * MIN_DISTANCE_CM

\* Mutant: the target is rounded to the nearest whole percent instead of
\* truncated.
BrightnessCurveHalfCm_Rounded(h) ==
    BRIGHTNESS_CLOSE
      + (2 * (BRIGHTNESS_FAR - BRIGHTNESS_CLOSE) * ClippedHalfCm(h)
           + 2 * (MAX_DETECTION_DISTANCE - MIN_DISTANCE_CM))
        \div (4 * (MAX_DETECTION_DISTANCE - MIN_DISTANCE_CM))

\* int(BRIGHTNESS_CLOSE + (BRIGHTNESS_FAR - BRIGHTNESS_CLOSE)
\* * clip((d - 25) / 375, 0, 1)), whole percent, for a distance of h half
\* centimetres.  For whole and half centimetres the double computation
\* truncates to the same integer as this quotient.
BrightnessCurveHalfCm(h) ==
    BRIGHTNESS_CLOSE
      + ((BRIGHTNESS_FAR - BRIGHTNESS_CLOSE) * ClippedHalfCm(h))
        \div (2 * (MAX_DETECTION_DISTANCE - MIN_DISTANCE_CM))

\* The brightness target for a distance of d whole centimetres.
BrightnessCurve(d) == BrightnessCurveHalfCm(2 * d)

\* Mutant: the smoothing extrapolates past the target instead of blending
\* towards it.
SetBrightness_Overshoots(c, value, smooth, wr) ==
    LET v == Clamp(BRIGHTNESS_MIN, value, BRIGHTNESS_MAX)
        c1 == IF smooth THEN [c EXCEPT !.target_brightness = v] ELSE c
        new == IF smooth
               THEN ((10 + BRIGHTNESS_SMOOTHING) * v
                       - BRIGHTNESS_SMOOTHING * c.current_brightness) \div 10
               ELSE v
        upd == [c1 EXCEPT !.current_brightness = new,
                          !.brightness_history = DequeAppend(@, new)]
    IN  IF Abs(new - c.current_brightness) < BRIGHTNESS_STEP
        THEN [c |-> c1, ret |-> TRUE, wrote |-> FALSE, raised |-> FALSE]
        ELSE IF c.available
             THEN IF wr THEN [c |-> upd, ret |-> TRUE, wrote |-> TRUE, raised |-> FALSE]
                        ELSE [c |-> c1, ret |-> FALSE, wrote |-> FALSE, raised |-> TRUE]
             ELSE [c |-> upd, ret |-> TRUE, wrote |-> TRUE, raised |-> FALSE]

\* Mutant: set_brightness stores and writes every value, however small the
\* change.
SetBrightness_AlwaysStores(c, value, smooth, wr) ==
    LET v == Clamp(BRIGHTNESS_MIN, value, BRIGHTNESS_MAX)
        c1 == IF smooth THEN [c EXCEPT !.target_brightness = v] ELSE c
        new == IF smooth
               THEN (BRIGHTNESS_SMOOTHING * v
                       + (10 - BRIGHTNESS_SMOOTHING) * c.current_brightness) \div 10
               ELSE v
        upd == [c1 EXCEPT !.current_brightness = new,
                          !.brightness_history = DequeAppend(@, new)]
    IN  IF c.available /\ ~wr
        THEN [c |-> c1, ret |-> FALSE, wrote |-> FALSE, raised |-> TRUE]
        ELSE [c |-> upd, ret |-> TRUE, wrote |-> TRUE, raised |-> FALSE]

\* set_brightness(value, smooth); wr: whether the device write succeeds.
\* Result: the controller after the call, the return value, whether the
\* value was written (device or simulation), and whether the device write
\* raised.
SetBrightness(c, value, smooth, wr) ==
    LET v == Clamp(BRIGHTNESS_MIN, value, BRIGHTNESS_MAX)
        c1 == IF smooth THEN [c EXCEPT !.target_brightness = v] ELSE c
        new == IF smooth
               THEN (BRIGHTNESS_SMOOTHING * v
                       + (10 - BRIGHTNESS_SMOOTHING) * c.current_brightness) \div 10
               ELSE v
        upd == [c1 EXCEPT !.current_brightness = new,
                          !.brightness_history = DequeAppend(@, new)]
    IN  IF Abs(new - c.current_brightness) < BRIGHTNESS_STEP
        THEN [c |-> c1, ret |-> TRUE, wrote |-> FALSE, raised |-> FALSE]
        ELSE IF c.available
             THEN IF wr THEN [c |-> upd, ret |-> TRUE, wrote |-> TRUE, raised |-> FALSE]
                        ELSE [c |-> c1, ret |-> FALSE, wrote |-> FALSE, raised |-> TRUE]
             ELSE [c |-> upd, ret |-> TRUE, wrote |-> TRUE, raised |-> FALSE]

\* Mutants of the gate (used to test the properties below).
\* The grace checks dropped: a held value is re-applied.
BrightnessGateBranch_NoGrace(c, d, t) ==
    IF c.last_distance # None
    THEN IF ~Below5cm(d, c.last_distance)
         THEN "moving"
         ELSE IF c.distance_stable_since # None
              THEN IF t - c.distance_stable_since >= STABLE_TIME_THRESHOLD
                   THEN "apply" ELSE "waiting"
              ELSE "start"
    ELSE "first"

\* The stable duration not awaited.
BrightnessGateBranch_NoWait(c, d, t) ==
    IF c.last_updated_distance # None /\ Below5cm(d, c.last_updated_distance)
    THEN "grace"
    ELSE IF c.last_distance # None
         THEN IF ~Below5cm(d, c.last_distance) THEN "moving" ELSE "apply"
         ELSE "first"

\* The stability gate of adapt_to_distance: the branch taken by a call with
\* raw distance d (cm) at time t.
BrightnessGateBranch(c, d, t) ==
    IF c.last_updated_distance # None /\ Below5cm(d, c.last_updated_distance)
    THEN "grace"
    ELSE IF c.last_distance # None
         THEN IF ~Below5cm(d, c.last_distance)
              THEN "moving"
              ELSE IF c.distance_stable_since # None
                   THEN IF t - c.distance_stable_since >= STABLE_TIME_THRESHOLD
                        THEN IF \/ c.last_updated_distance = None
                                \/ ~Below5cm(d, c.last_updated_distance)
                             THEN "apply"
                             ELSE "late_grace"
                        ELSE "waiting"
                   ELSE "start"
         ELSE "first"

\* adapt_to_distance(distance) called at time t.
BrightnessAdapt(c, d, t, wr) ==
    LET br == BrightnessGateBranch(c, d, t)
        timer == [c EXCEPT !.distance_stable_since = t]
        both == [c EXCEPT !.distance_stable_since = t, !.last_distance = d]
        appl == [c EXCEPT !.last_updated_distance = d, !.last_distance = d]
        set == SetBrightness(appl, 100 * BrightnessCurve(d), FALSE, wr)
    IN  CASE br = "grace" -> [c |-> timer, branch |-> br, set |-> None, ret |-> TRUE]
          [] br \in {"moving", "start", "first"} ->
                [c |-> both, branch |-> br, set |-> None, ret |-> TRUE]
          [] br = "waiting" ->
                [c |-> [c EXCEPT !.last_distance = d], branch |-> br,
                 set |-> None, ret |-> TRUE]
          [] br = "late_grace" -> [c |-> c, branch |-> br, set |-> None, ret |-> TRUE]
          [] br = "apply" ->
                [c |-> set.c, branch |-> br, set |-> 100 * BrightnessCurve(d),
                 ret |-> set.ret]

\* ------------------------------------------------------- VolumeController
\* Mutant: the volume follows the distance linearly (exponent 1).
VolumeCurveHalfCm_Linear(h) ==
    2000 + (8000 * ClippedHalfCm(h))
             \div (2 * (MAX_DETECTION_DISTANCE - MIN_DISTANCE_CM))

\* Power curve (20 + 80 * n ** 0.4) / 100 with n = clip((d - 25) / 375, 0, 1),
\* for a distance of h half centimetres, tabulated over the clipped distance
\* for the modelled distances in hundredths of a percent
\* (0.6202444487046027 at 100 cm is 6202, 0.8062866266041593 at 212.5 cm is
\* 8063).
VolumeCurveHalfCm(h) ==
    LET n == ClippedHalfCm(h)
    IN  CASE n = 0 -> 2000
          [] n = 136 -> 6041 [] n = 146 -> 6157 [] n = 150 -> 6202
          [] n = 156 -> 6269 [] n = 162 -> 6334 [] n = 250 -> 7155
          [] n = 374 -> 8056 [] n = 375 -> 8063 [] n = 376 -> 8069
          [] n = 750 -> 10000

\* The volume target for a distance of d whole centimetres.
VolumeCurve(d) == VolumeCurveHalfCm(2 * d)

\* Mutant: set_volume keeps the new value although the device write raised.
SetVolume_StoresOnFailure(c, value, smooth, wr) ==
    LET v == Clamp(VOLUME_MIN, value, VOLUME_MAX)
        c1 == IF smooth THEN [c EXCEPT !.target_volume = v] ELSE c
        new == IF smooth
               THEN (VOLUME_SMOOTHING * v
                       + (10 - VOLUME_SMOOTHING) * c.current_volume) \div 10
               ELSE v
        upd == [c1 EXCEPT !.current_volume = new,
                          !.volume_history = DequeAppend(@, new)]
    IN  IF Abs(new - c.current_volume) < VOLUME_STEP
        THEN [c |-> c1, ret |-> TRUE, wrote |-> FALSE, raised |-> FALSE]
        ELSE IF c.available /\ ~wr
             THEN [c |-> upd, ret |-> FALSE, wrote |-> FALSE, raised |-> TRUE]
             ELSE [c |-> upd, ret |-> TRUE, wrote |-> TRUE, raised |-> FALSE]

\* set_volume(value, smooth); wr: whether the device write succeeds.
SetVolume(c, value, smooth, wr) ==
    LET v == Clamp(VOLUME_MIN, value, VOLUME_MAX)
        c1 == IF smooth THEN [c EXCEPT !.target_volume = v] ELSE c
        new == IF smooth
               THEN (VOLUME_SMOOTHING * v
                       + (10 - VOLUME_SMOOTHING) * c.current_volume) \div 10
               ELSE v
        upd == [c1 EXCEPT !.current_volume = new,
                          !.volume_history = DequeAppend(@, new)]
    IN  IF Abs(new - c.current_volume) < VOLUME_STEP
        THEN [c |-> c1, ret |-> TRUE, wrote |-> FALSE, raised |-> FALSE]
        ELSE IF c.available
             THEN IF wr THEN [c |-> upd, ret |-> TRUE, wrote |-> TRUE, raised |-> FALSE]
                        ELSE [c |-> c1, ret |-> FALSE, wrote |-> FALSE, raised |-> TRUE]
             ELSE [c |-> upd, ret |-> TRUE, wrote |-> TRUE, raised |-> FALSE]

\* Mutant: the volume gate holds a distance exactly 5 cm from the last
\* applied one as well.
VolumeGateBranch_InclusiveGrace(c, d, t) ==
    IF c.last_updated_distance # None /\ Abs(d - c.last_updated_distance) <= 5
    THEN "grace"
    ELSE IF c.last_distance # None
         THEN IF ~Below5cm(d, c.last_distance)
              THEN "moving"
              ELSE IF c.distance_stable_since # None
                   THEN IF t - c.distance_stable_since >= STABLE_TIME_THRESHOLD
                        THEN IF \/ c.last_updated_distance = None
                                \/ ~Below5cm(d, c.last_updated_distance)
                             THEN "apply"
                             ELSE "late_grace"
                        ELSE "waiting"
                   ELSE "start"
         ELSE "first"

\* adapt_to_distance: the branch a call with distance d at time t takes.
VolumeGateBranch(c, d, t) ==
    IF c.last_updated_distance # None /\ Below5cm(d, c.last_updated_distance)
    THEN "grace"
    ELSE IF c.last_distance # None
         THEN IF ~Below5cm(d, c.last_distance)
              THEN "moving"
              ELSE IF c.distance_stable_since # None
                   THEN IF t - c.distance_stable_since >= STABLE_TIME_THRESHOLD
                        THEN IF \/ c.last_updated_distance = None
                                \/ ~Below5cm(d, c.last_updated_distance)
                             THEN "apply"
                             ELSE "late_grace"
                        ELSE "waiting"
                   ELSE "start"
         ELSE "first"

\* Mutant: a call inside the grace range also moves last_distance.
VolumeAdapt_GraceTracks(c, d, t, wr) ==
    LET br == VolumeGateBranch(c, d, t)
        both == [c EXCEPT !.distance_stable_since = t, !.last_distance = d]
        appl == [c EXCEPT !.last_updated_distance = d, !.last_distance = d]
        set == SetVolume(appl, VolumeCurve(d), FALSE, wr)
    IN  CASE br \in {"grace", "moving", "start", "first"} ->
                [c |-> both, branch |-> br, set |-> None, ret |-> TRUE]
          [] br = "waiting" ->
                [c |-> [c EXCEPT !.last_distance = d], branch |-> br,
                 set |-> None, ret |-> TRUE]
          [] br = "late_grace" -> [c |-> c, branch |-> br, set |-> None, ret |-> TRUE]
          [] br = "apply" ->
                [c |-> set.c, branch |-> br, set |-> VolumeCurve(d), ret |-> set.ret]

\* adapt_to_distance(distance) called at time t.
VolumeAdapt(c, d, t, wr) ==
    LET br == VolumeGateBranch(c, d, t)
        timer == [c EXCEPT !.distance_stable_since = t]
        both == [c EXCEPT !.distance_stable_since = t, !.last_distance = d]
        appl == [c EXCEPT !.last_updated_distance = d, !.last_distance = d]
        set == SetVolume(appl, VolumeCurve(d), FALSE, wr)
    IN  CASE br = "grace" -> [c |-> timer, branch |-> br, set |-> None, ret |-> TRUE]
          [] br \in {"moving", "start", "first"} ->
                [c |-> both, branch |-> br, set |-> None, ret |-> TRUE]
          [] br = "waiting" ->
                [c |-> [c EXCEPT !.last_distance = d], branch |-> br,
                 set |-> None, ret |-> TRUE]
          [] br = "late_grace" -> [c |-> c, branch |-> br, set |-> None, ret |-> TRUE]
          [] br = "apply" ->
                [c |-> set.c, branch |-> br, set |-> VolumeCurve(d), ret |-> set.ret]

\* ------------------------------------------------------ GestureController
NoGesture == "None"
DiscreteKinds == {"play_pause", "next_track", "prev_track"}
NoHand == [fingers |-> <<>>, x |-> None, y |-> None]
\* What the hand detector may report on a frame.
Hands == {NoHand} \cup [fingers : FingerVectors, x : XPercents, y : {50}]

\* GestureController.__init__
GestureInit0 ==
    [last_hand_x |-> None, last_hand_y |-> None,
     gesture_active |-> TRUE,
     in_cooldown |-> FALSE, cooldown_start_time |-> 0,
     registered_gesture |-> NoGesture, registered_finger_count |-> None,
     last_finger_count |-> None, finger_count_stable_frames |-> 0,
     hand_present |-> FALSE]

\* sum(fingers)
SumFingers(f) == f[1] + f[2] + f[3] + f[4] + f[5]

\* The discrete gesture of a finger count.
DiscreteOf(fc) ==
    CASE fc = 3 -> "play_pause" [] fc = 4 -> "next_track" [] fc = 5 -> "prev_track"
      [] OTHER -> NoGesture

\* _get_movement_delta(current_x, current_y): the controller with the new
\* last position, and delta_x.
MovementDelta(c, x, y) ==
    [c |-> [c EXCEPT !.last_hand_x = x, !.last_hand_y = y],
     dx |-> IF c.last_hand_x = None \/ c.last_hand_y = None
            THEN 0 ELSE x - c.last_hand_x]

\* Mutant: the cooldown gate still blocks on the tick at which exactly
\* cooldown_seconds have elapsed.
CooldownBlocks_Inclusive(c, t) ==
    c.in_cooldown /\ t - c.cooldown_start_time <= cooldown_seconds

\* Mutant: the cooldown gate lets a gesture through again before
\* cooldown_seconds have elapsed.
CooldownBlocks_Short(c, t) ==
    c.in_cooldown /\ t - c.cooldown_start_time < cooldown_seconds - 1

\* Mutant: the cooldown gate never lets the cooldown expire by itself.
CooldownBlocks_Sticky(c, t) == c.in_cooldown

\* The cooldown gate of _classify_gesture: still in cooldown at time t.
CooldownBlocks(c, t) ==
    c.in_cooldown /\ t - c.cooldown_start_time < cooldown_seconds

\* Mutant: a fist is gated by the cooldown like every other gesture.
FistRegisters_Gated(c, t) ==
    ~CooldownBlocks(c, t)
      /\ ~(c.registered_gesture = "toggle_gestures" /\ c.registered_finger_count = 0)

\* Whether a (validated) fist registers as a new toggle: not while a toggle
\* is the registered gesture; the cooldown timer is not consulted.
FistRegisters(c, t) ==
    ~(c.registered_gesture = "toggle_gestures" /\ c.registered_finger_count = 0)

\* Mutant: a finger count of 0 is taken as a fist whatever the finger
\* vector says.
FistValid_Any(fingers) == TRUE

\* The validation of a fist in _classify_gesture: all finger values are 0.
FistValid(fingers) == SumFingers(fingers) = 0

\* _classify_gesture(finger_count, fingers, x_percent, y_percent, delta_x,
\* delta_y) at time t: the controller after the call and the returned
\* (gesture_type, value).
ClassifyGesture(c, fc, fingers, x, dx, t) ==
    LET none == [c |-> c, type |-> NoGesture, value |-> None]
        \* cooldown expired: cleared before the remaining checks
        c1 == IF c.in_cooldown /\ ~CooldownBlocks(c, t)
              THEN [c EXCEPT !.in_cooldown = FALSE,
                             !.registered_gesture = NoGesture,
                             !.registered_finger_count = None]
              ELSE c
        quiet == [c |-> c1, type |-> NoGesture, value |-> None]
        combined == Clamp(0, x + dx * 2, 100)
    IN  IF fc = 0
        THEN IF ~FistValid(fingers)
             THEN none
             ELSE IF ~FistRegisters(c, t)
                  THEN none
                  ELSE [c |-> [c EXCEPT !.gesture_active = ~c.gesture_active,
                                        !.in_cooldown = TRUE,
                                        !.cooldown_start_time = t,
                                        !.registered_gesture = "toggle_gestures",
                                        !.registered_finger_count = 0],
                        type |-> "toggle_gestures", value |-> None]
        ELSE IF CooldownBlocks(c, t)
             THEN none
             ELSE IF c1.registered_gesture # NoGesture
                       /\ fc = c1.registered_finger_count
                  THEN quiet
                  ELSE IF fc = 1
                       THEN [c |-> c1, type |-> "volume_control", value |-> combined]
                       ELSE IF fc = 2
                            THEN [c |-> c1, type |-> "brightness_control",
                                  value |-> combined]
                            ELSE IF ~c1.gesture_active
                                 THEN quiet
                                 ELSE IF fc \in {3, 4, 5}
                                      THEN [c |-> [c1 EXCEPT
                                                     !.in_cooldown = TRUE,
                                                     !.cooldown_start_time = t,
                                                     !.registered_gesture = DiscreteOf(fc),
                                                     !.registered_finger_count = fc],
                                            type |-> DiscreteOf(fc), value |-> None]
                                      ELSE quiet

\* Mutant: a frame without a hand also ends the cooldown.
NoHandFrame_ResetsCooldown(c) ==
    [c EXCEPT !.last_hand_x = None, !.last_hand_y = None,
              !.hand_present = FALSE,
              !.last_finger_count = None,
              !.finger_count_stable_frames = 0,
              !.in_cooldown = FALSE,
              !.registered_gesture = NoGesture,
              !.registered_finger_count = None]

\* detect_gestures when findHands reports no hand: movement tracking and
\* the stability counter are reset, the cooldown is left alone.
NoHandFrame(c) ==
    [c EXCEPT !.last_hand_x = None, !.last_hand_y = None,
              !.hand_present = FALSE,
              !.last_finger_count = None,
              !.finger_count_stable_frames = 0]

\* Mutant: the finger count need not be held before a discrete gesture is
\* classified.
StableEnough_OneFrame(frames) == frames >= 1

\* finger_count_stable_frames >= stability_threshold
StableEnough(frames) == frames >= stability_threshold

\* detect_gestures(frame) at time t.  hand: NoHand, or the detected hand as
\* [fingers, x, y]; the result is the controller after the call and the
\* returned gesture (type NoGesture for an empty list).
DetectGesturesCall(c, hand, t) ==
    IF hand = NoHand
    THEN [c |-> NoHandFrame(c), type |-> NoGesture, value |-> None]
    ELSE LET fc == SumFingers(hand.fingers)
             c1 == [c EXCEPT !.hand_present = TRUE]
             frames == IF fc = c1.last_finger_count
                       THEN c1.finger_count_stable_frames + 1 ELSE 1
             c2 == IF fc \in {3, 4, 5}
                   THEN [c1 EXCEPT !.last_finger_count = fc,
                                   !.finger_count_stable_frames = frames]
                   ELSE [c1 EXCEPT !.last_finger_count = None,
                                   !.finger_count_stable_frames = 0]
             mv == MovementDelta(c2, hand.x, hand.y)
             r == ClassifyGesture(mv.c, fc, hand.fingers, hand.x, mv.dx, t)
         IN  IF fc \in {3, 4, 5} /\ ~StableEnough(frames)
             THEN [c |-> c2, type |-> NoGesture, value |-> None]
             ELSE r

\* Mutant: update_cooldown ends a cooldown whatever its age.
UpdateCooldownCall_Eager(c, t) ==
    IF c.in_cooldown
    THEN [c EXCEPT !.in_cooldown = FALSE,
                   !.registered_gesture = NoGesture,
                   !.registered_finger_count = None]
    ELSE c

\* Mutant: update_cooldown ends the cooldown but keeps the registered
\* gesture.
UpdateCooldownCall_KeepsRegistered(c, t) ==
    IF c.in_cooldown /\ t - c.cooldown_start_time >= cooldown_seconds
    THEN [c EXCEPT !.in_cooldown = FALSE]
    ELSE c

\* update_cooldown() at time t.
UpdateCooldownCall(c, t) ==
    IF c.in_cooldown /\ t - c.cooldown_start_time >= cooldown_seconds
    THEN [c EXCEPT !.in_cooldown = FALSE,
                   !.registered_gesture = NoGesture,
                   !.registered_finger_count = None]
    ELSE c

\* ----------------------------------------------------------- SystemManager
ControlModes == {"hybrid", "gesture", "head"}

\* _mode_button_rect before the button has been drawn (None).
NoRect == [x1 |-> None, y1 |-> None, x2 |-> None, y2 |-> None]

\* SystemManager.__init__ at time t (media playing, the subject counted as
\* seen at construction, the default control mode).
SystemManagerInit(t) ==
    [is_running |-> FALSE, media_paused |-> FALSE, last_face_time |-> t,
     control_mode |-> "hybrid", mode_button_rect |-> NoRect]

\* start() when the camera starts: the manager is running.
StartCall(s) == [s EXCEPT !.is_running = TRUE]

\* stop(): the manager is no longer running; the camera, the audio capture
\* and the face detector are released and the windows closed, none of
\* which is part of the modelled state.
StopCall(s) == [s EXCEPT !.is_running = FALSE]

\* _draw_mode_button: the rectangle of the button on a preview CAMERA_WIDTH
\* wide, kept for the mouse callback.
ModeButtonRect ==
    [x1 |-> CAMERA_WIDTH - 180 - 20, y1 |-> 20, x2 |-> CAMERA_WIDTH - 20, y2 |-> 20 + 40]

\* Mutant: the cycle runs the other way round.
NextControlMode_Backwards(mode) ==
    CASE mode = "hybrid" -> "head"
      [] mode = "head" -> "gesture"
      [] OTHER -> "hybrid"

\* _on_mouse with a left click inside the mode button: the next mode.
NextControlMode(mode) ==
    CASE mode = "hybrid" -> "gesture"
      [] mode = "gesture" -> "head"
      [] OTHER -> "hybrid"

\* gesture_controller.get_smoothed_gesture() as process_frame uses it: the
\* candidate gesture event of this tick, which is the gesture detect_gestures
\* has just returned (type NoGesture: nothing to act on).
GetSmoothedGesture(detected) == [type |-> detected.type, value |-> detected.value]

\* The continuous value a gesture carries for one actuator (percent), None
\* if it carries none.
GestureAdjustment(sg, kind) ==
    IF sg.type = kind /\ sg.value # None THEN sg.value ELSE None

\* The play/pause gesture toggle: the manager after it and the media
\* commands sent.
GestureToggle(s, sg) ==
    IF sg.type = "play_pause"
    THEN IF ~s.media_paused
         THEN [s |-> [s EXCEPT !.media_paused = TRUE], pauses |-> 1, resumes |-> 0]
         ELSE [s |-> [s EXCEPT !.media_paused = FALSE], pauses |-> 0, resumes |-> 1]
    ELSE [s |-> s, pauses |-> 0, resumes |-> 0]

\* Mutant: the absence timeout fires once exactly ABSENCE_TIMEOUT has passed.
AbsentTooLong_Inclusive(s, t) == t - s.last_face_time >= ABSENCE_TIMEOUT

\* absence_duration > settings.ABSENCE_TIMEOUT
AbsentTooLong(s, t) == t - s.last_face_time > ABSENCE_TIMEOUT

\* Mutant: a returning subject resumes the media without being recorded as
\* seen.
PresenceStep_KeepsLastSeen(s, present, t) ==
    IF present
    THEN IF s.media_paused
         THEN [s |-> [s EXCEPT !.media_paused = FALSE], pauses |-> 0, resumes |-> 1]
         ELSE [s |-> [s EXCEPT !.last_face_time = t], pauses |-> 0, resumes |-> 0]
    ELSE IF AbsentTooLong(s, t) /\ ~s.media_paused
         THEN [s |-> [s EXCEPT !.media_paused = TRUE], pauses |-> 1, resumes |-> 0]
         ELSE [s |-> s, pauses |-> 0, resumes |-> 0]

\* Presence detection at time t (present: len(faces) > 0): the manager after
\* it and the media commands sent.
PresenceStep(s, present, t) ==
    IF present
    THEN IF s.media_paused
         THEN [s |-> [s EXCEPT !.last_face_time = t, !.media_paused = FALSE],
               pauses |-> 0, resumes |-> 1]
         ELSE [s |-> [s EXCEPT !.last_face_time = t], pauses |-> 0, resumes |-> 0]
    ELSE IF AbsentTooLong(s, t) /\ ~s.media_paused
         THEN [s |-> [s EXCEPT !.media_paused = TRUE], pauses |-> 1, resumes |-> 0]
         ELSE [s |-> s, pauses |-> 0, resumes |-> 0]

\* Mutant: hybrid mode always takes the distance path.
ModeCall_HybridByDistance(mode, value) ==
    IF mode = "gesture"
    THEN (IF value # None THEN "set" ELSE "none")
    ELSE "adapt"

\* Mutant: head mode lets a gesture value through, as hybrid mode does.
ModeCall_HeadTakesGesture(mode, value) ==
    IF mode = "gesture"
    THEN (IF value # None THEN "set" ELSE "none")
    ELSE (IF value # None THEN "set" ELSE "adapt")

\* Which call a control mode makes on an actuator when a subject is present:
\* "set" (the gesture value), "adapt" (the distance) or "none".
ModeCall(mode, value) ==
    IF mode = "gesture"
    THEN (IF value # None THEN "set" ELSE "none")
    ELSE IF mode = "head"
         THEN "adapt"
         ELSE (IF value # None THEN "set" ELSE "adapt")

\* Brightness control of process_frame: the controller after it, the call
\* made and what it returned.  value: the gesture adjustment (percent), d:
\* the weighted distance.
ApplyBrightness(c, mode, present, value, d, t, wr) ==
    LET call == IF present THEN ModeCall(mode, value) ELSE "none"
        set == SetBrightness(c, 100 * value, TRUE, wr)
        adapt == BrightnessAdapt(c, d, t, wr)
    IN  CASE call = "set" -> [c |-> set.c, call |-> call, ret |-> set.ret]
          [] call = "adapt" -> [c |-> adapt.c, call |-> call, ret |-> adapt.ret]
          [] OTHER -> [c |-> c, call |-> call, ret |-> TRUE]

\* Volume control of process_frame; paused: media_paused after presence
\* detection.  With media paused the volume is forced to 0.0 unsmoothed
\* ("mute").
ApplyVolume(c, mode, paused, present, value, d, t, wr) ==
    LET call == IF ~paused /\ present
                THEN ModeCall(mode, value)
                ELSE IF paused THEN "mute" ELSE "none"
        set == SetVolume(c, 100 * value, TRUE, wr)
        adapt == VolumeAdapt(c, d, t, wr)
        mute == SetVolume(c, 0, FALSE, wr)
    IN  CASE call = "set" -> [c |-> set.c, call |-> call, ret |-> set.ret]
          [] call = "adapt" -> [c |-> adapt.c, call |-> call, ret |-> adapt.ret]
          [] call = "mute" -> [c |-> mute.c, call |-> call, ret |-> mute.ret]
          [] OTHER -> [c |-> c, call |-> call, ret |-> TRUE]

\* process_frame at time t once the camera has delivered a frame.  hand:
\* what the hand detector reports; d: the weighted distance of the detected
\* subjects, None when no face is detected; bw, vw: whether a device write
\* made on this tick succeeds.
ProcessFrameCall(s, g, b, v, hand, d, t, bw, vw) ==
    LET det == DetectGesturesCall(g, hand, t)
        sg == GetSmoothedGesture(det)
        vol == GestureAdjustment(sg, "volume_control")
        bri == GestureAdjustment(sg, "brightness_control")
        tog == GestureToggle(s, sg)
        present == d # None
        pre == PresenceStep(tog.s, present, t)
        dist == IF present THEN d ELSE MAX_DETECTION_DISTANCE
        rb == ApplyBrightness(b, s.control_mode, present, bri, dist, t, bw)
        rv == ApplyVolume(v, s.control_mode, pre.s.media_paused, present,
                          vol, dist, t, vw)
    IN  [s |-> pre.s, g |-> det.c, b |-> rb.c, v |-> rv.c,
         type |-> det.type, value |-> det.value,
         pauses |-> tog.pauses + pre.pauses,
         resumes |-> tog.resumes + pre.resumes,
         gesture_pauses |-> tog.pauses, gesture_resumes |-> tog.resumes,
         nexts |-> IF sg.type = "next_track" THEN 1 ELSE 0,
         prevs |-> IF sg.type = "prev_track" THEN 1 ELSE 0,
         b_call |-> rb.call, v_call |-> rv.call,
         b_ret |-> rb.ret, v_ret |-> rv.ret]

\* -------------------------------------------------------- WeightedAdapter
\* FaceData, as far as the adapter reads it: the distance in tenths of a
\* centimetre and the position in hundredths of the frame width and height.
\* Near and far faces at the centre and at the edge, faces on either side of
\* the distance threshold and of the border of the central region, and a
\* face at a distance that is not a whole number of centimetres (29.6 cm).
Faces ==
    {[distance |-> 600, position |-> <<50, 50>>],
     [distance |-> 600, position |-> <<80, 40>>],
     [distance |-> 1200, position |-> <<50, 50>>],
     [distance |-> 1200, position |-> <<80, 40>>],
     [distance |-> 990, position |-> <<70, 70>>],
     [distance |-> 1000, position |-> <<69, 69>>],
     [distance |-> 296, position |-> <<50, 50>>]}
\* The lists of faces a frame may hold.
FaceLists == UNION {[1..n -> Faces] : n \in 0..MaxFaces}

RECURSIVE SeqSum(_)
\* The sum of a sequence of numbers, accumulated in order.
SeqSum(q) == IF q = <<>> THEN 0 ELSE q[1] + SeqSum(Tail(q))

\* calculate_distance_weight(distance), tenths
CalculateDistanceWeight(distance) ==
    IF distance < 10 * DISTANCE_THRESHOLD_NEAR
    THEN DISTANCE_WEIGHT_NEAR ELSE DISTANCE_WEIGHT_FAR

\* calculate_spatial_weight(position), tenths: the distance from the frame
\* centre, divided by 0.707, is compared with 1 - CENTER_REGION_RATIO;
\* squared and scaled, sqrt(sq) / 100 / 0.707 < 0.4 is
\* 10000 * sq < 2828 ^ 2.
CalculateSpatialWeight(position) ==
    LET sq == (position[1] - 50) * (position[1] - 50)
                + (position[2] - 50) * (position[2] - 50)
        limit == (707 * (100 - CENTER_REGION_RATIO)) \div 10
    IN  IF 10000 * sq < limit * limit THEN CENTER_WEIGHT ELSE EDGE_WEIGHT

\* Mutant: the two weights of a face are added instead of multiplied.
CalculateFaceWeight_Additive(face) ==
    10 * (CalculateDistanceWeight(face.distance)
            + CalculateSpatialWeight(face.position))

\* calculate_face_weight(face), hundredths
CalculateFaceWeight(face) ==
    CalculateDistanceWeight(face.distance) * CalculateSpatialWeight(face.position)

\* The rounding of the double arithmetic of calculate_weighted_distance:
\* by how many units in the last place the double it returns
\* (weighted_sum accumulated in order, then divided by total_weight) lies
\* above the double nearest to the exact quotient.  Tabulated for the lists
\* of up to three of Faces; 29.6 * 3.0 / 3.0 is 29.600000000000005.
QuotientUlps(faces) ==
    LET a == [distance |-> 296, position |-> <<50, 50>>]
        b == [distance |-> 600, position |-> <<50, 50>>]
        e == [distance |-> 600, position |-> <<80, 40>>]
        g == [distance |-> 1200, position |-> <<80, 40>>]
    IN  IF faces \in
             {<<a>>, <<b, a>>, <<e, a>>, <<a, b>>, <<a, e>>, <<a, a>>,
              <<e, e, a>>, <<e, g, a>>, <<e, a, e>>, <<e, a, g>>,
              <<g, e, a>>, <<g, a, e>>, <<g, a, a>>, <<a, e, e>>,
              <<a, e, g>>, <<a, g, e>>, <<a, g, a>>, <<a, a, g>>,
              <<a, a, a>>}
        THEN 1 ELSE 0

\* calculate_weighted_distance(faces): the quotient it returns, as numerator
\* and denominator (tenths of a cm) and the rounding of the double
\* division (ulps).
CalculateWeightedDistance(faces) ==
    IF faces = <<>>
    THEN [num |-> 10 * MAX_DETECTION_DISTANCE, den |-> 1, ulps |-> 0]
    ELSE LET weights == [i \in 1..Len(faces) |-> CalculateFaceWeight(faces[i])]
             weighted_sum == SeqSum([i \in 1..Len(faces) |->
                                       faces[i].distance * weights[i]])
             total_weight == SeqSum(weights)
         IN  IF total_weight > 0
             THEN [num |-> weighted_sum, den |-> total_weight,
                   ulps |-> QuotientUlps(faces)]
             ELSE [num |-> SeqSum([i \in 1..Len(faces) |-> faces[i].distance]),
                   den |-> Len(faces), ulps |-> 0]

\* ------------------------------------------------------------------ state
VARIABLES
    now,     \* time.time(), half seconds
    bc,      \* the BrightnessController object
    vc,      \* the VolumeController object
    last,    \* observation: input and outcome of the most recent adapt call
             \* (b_from, v_from: last_updated_distance before the call)
    early,   \* observation: the calls since construction (first, lo, hi)
    applies, \* observation: gate-approved updates since construction
    run,     \* observation: the current run of calls with one raw distance
    bwin,    \* observation: brightness-gate calls since its timer restarted
    vwin,    \* observation: volume-gate calls since its timer restarted
    failures, \* number of ticks on which a device write has raised so far
    gc,      \* the GestureController object
    gobs,    \* observation of the calls made on the GestureController
             \* directly: which call came last (op), the finger count shown
             \* on the most recent frame (fc, None without a hand), what the
             \* most recent call returned (event, value), and how many
             \* consecutive frames have shown that finger count (streak,
             \* capped)
    hold,    \* observation of the frames shown to detect_gestures: the finger
             \* count of the current run of consecutive frames (None without
             \* a hand) and how many gestures the run has returned (capped)
    emitted_at, \* observation of the same calls: per discrete gesture, when it was returned last
               \* (at) and when it was returned the time before (before)
    sm,      \* the SystemManager object (media_paused, last_face_time,
             \* control_mode, _mode_button_rect)
    mobs,    \* observation of the mouse callback: the most recent event,
             \* whether it fell inside the button, whether the button had
             \* been drawn, the mode before it, and the modes that the last
             \* clicks that changed the mode started from
    calls,   \* observation: how many controller methods have been called
             \* directly (outside process_frame)
    acall,   \* observation: the most recent of those calls (which controller,
             \* which method, the value and smooth flag it handed to set_*,
             \* None if it did not get that far, whether the device write
             \* raised, and what the method returned)
    wobs,    \* observation: the most recent call of the WeightedAdapter (the
             \* faces handed in and the quotient returned)
    back,    \* observation of process_frame: whether a pause has forced the
             \* volume down (muted), and for the subject in view since when
             \* it has been seen without a break (since) and at which
             \* distance (d)
    sobs     \* observation: what the most recent SystemManager call did
             \* (op; for process_frame: whether the camera delivered a frame,
             \* the weighted distance of the subjects or None, the media
             \* commands sent, the actuator calls made) and the current run
             \* of frames without a subject (gone)

gateVars == <<bc, vc, last, early, applies, run, bwin, vwin>>
gestureVars == <<gc, gobs, emitted_at, hold>>
systemVars == <<sm, sobs, back, mobs>>
directVars == <<calls, acall, wobs>>
vars == <<now, bc, vc, last, early, applies, run, bwin, vwin, failures,
          gc, gobs, emitted_at, hold, sm, calls, acall, wobs, sobs, back, mobs>>

\* BrightnessController.__init__: simulation mode (no device, or the first
\* read failed) keeps 50; otherwise the level the device reports.
BrightnessInit(available, level) ==
    [current_brightness |-> IF available THEN level ELSE 5000,
     target_brightness |-> IF available THEN level ELSE 5000,
     brightness_history |-> <<>>,
     last_distance |-> None,
     distance_stable_since |-> None,
     last_updated_distance |-> None,
     available |-> available]

\* VolumeController.__init__
VolumeInit(available, level) ==
    [current_volume |-> IF available THEN level ELSE 5000,
     target_volume |-> IF available THEN level ELSE 5000,
     volume_history |-> <<>>,
     last_distance |-> None,
     distance_stable_since |-> None,
     last_updated_distance |-> None,
     available |-> available]

\* ---------------------------------------------------------------- actions
\* What a device write can do on a call: it is attempted only by a
\* gate-approved update of a controller that has a device, and may raise
\* (at most MaxWriteFailures failing calls are explored per behaviour).
WriteOutcomes(available, branch) ==
    IF available /\ branch = "apply" /\ failures < MaxWriteFailures
    THEN BOOLEAN ELSE {TRUE}

\* One tick that drives both controllers from the same raw distance, as
\* process_frame does in 'head' mode with a subject present and media
\* playing: brightness_controller.adapt_to_distance(d) and
\* volume_controller.adapt_to_distance(d).  bw, vw: whether a device write
\* made on this tick succeeds.
AdaptToDistanceOn(distances) ==
    \E d \in distances, dt \in 0..MaxDt :
        /\ now + dt <= MaxTime
        /\ now' = now + dt
        /\ \E bw \in WriteOutcomes(bc.available, BrightnessGateBranch(bc, d, now + dt)),
              vw \in WriteOutcomes(vc.available, VolumeGateBranch(vc, d, now + dt)) :
              LET rb == BrightnessAdapt(bc, d, now + dt, bw)
                  rv == VolumeAdapt(vc, d, now + dt, vw)
              IN  /\ bc' = rb.c
                  /\ vc' = rv.c
                  /\ last' = [d |-> d,
                              b_from |-> bc.last_updated_distance,
                              v_from |-> vc.last_updated_distance,
                              b_branch |-> rb.branch, v_branch |-> rv.branch,
                              b_set |-> rb.set, v_set |-> rv.set,
                              b_ret |-> rb.ret, v_ret |-> rv.ret]
                  /\ applies' =
                        [b |-> applies.b + (IF rb.branch = "apply" THEN 1 ELSE 0),
                         v |-> applies.v + (IF rv.branch = "apply" THEN 1 ELSE 0)]
                  /\ failures' = IF bw /\ vw THEN failures ELSE failures + 1
                  /\ UNCHANGED <<gestureVars, systemVars, directVars>>

\* The tick with distances around the 5 cm grace range.
AdaptToDistance == AdaptToDistanceOn(Distances)

\* Distances (cm) at the ends, the middle and outside of the range that the
\* distance curves map.
CurveDistances == {10, 25, 212, 213, 400, 500}

\* The tick with distances across the range of the curves.
AdaptToCurveDistance == AdaptToDistanceOn(CurveDistances)

\* One frame of the gesture pipeline: gesture_controller.detect_gestures.
DetectGesturesFrame ==
    \E hand \in Hands, dt \in 0..MaxDt :
        /\ now + dt <= MaxTime
        /\ now' = now + dt
        /\ LET r == DetectGesturesCall(gc, hand, now + dt)
               fc == IF hand = NoHand THEN None ELSE SumFingers(hand.fingers)
           IN  /\ gc' = r.c
               /\ gobs' = [op |-> "detect_gestures", fc |-> fc, extended |-> fc,
                           event |-> r.type, value |-> r.value,
                           streak |-> IF hand = NoHand THEN 0
                                      ELSE IF fc = gobs.fc
                                           THEN Min2(gobs.streak + 1, StreakCap)
                                           ELSE 1]
               /\ emitted_at' = IF r.type \in DiscreteKinds
                                THEN [emitted_at EXCEPT ![r.type] =
                                        [at |-> now + dt, before |-> @.at]]
                                ELSE emitted_at
               /\ r.c.finger_count_stable_frames <= MaxStableFrames
        /\ UNCHANGED <<gateVars, failures, systemVars, directVars>>

\* The frame, the run of equal frames not being observed.
DetectGestures == DetectGesturesFrame /\ UNCHANGED hold

\* The run of consecutive frames with one finger count after a frame that
\* showed fc and returned event.
HoldNext(h, fc, event) ==
    LET one == IF event = NoGesture THEN 0 ELSE 1
    IN  IF fc = None THEN [fc |-> None, emits |-> 0]
        ELSE IF fc = h.fc THEN [fc |-> fc, emits |-> Min2(2, h.emits + one)]
        ELSE [fc |-> fc, emits |-> one]
ObserveHold == hold' = HoldNext(hold, gobs'.fc, gobs'.event)

\* The frame, observed per run of equal frames.
DetectGesturesHeld == DetectGesturesFrame /\ ObserveHold

\* Horizontal movement deltas handed to _classify_gesture.
DeltaXs == {-20, 0}

\* gesture_controller._classify_gesture called with a finger count and a
\* finger vector of its caller's choice (detect_gestures always passes the
\* count of the vector; any other caller need not).
ClassifyGestureCall ==
    \E fc \in 0..5, fingers \in FingerVectors, x \in XPercents, dx \in DeltaXs,
       dt \in 0..MaxDt :
        /\ now + dt <= MaxTime
        /\ now' = now + dt
        /\ \E r \in {ClassifyGesture(gc, fc, fingers, x, dx, now + dt)} :
               /\ gc' = r.c
               /\ gobs' = [op |-> "_classify_gesture", fc |-> fc,
                           extended |-> SumFingers(fingers),
                           event |-> r.type, value |-> r.value, streak |-> 0]
        /\ UNCHANGED <<emitted_at, hold, gateVars, failures, systemVars, directVars>>

\* gesture_controller.update_cooldown()
UpdateCooldown ==
    \E dt \in 0..MaxDt :
        /\ now + dt <= MaxTime
        /\ now' = now + dt
        /\ gc' = UpdateCooldownCall(gc, now + dt)
        /\ gobs' = [gobs EXCEPT !.op = "update_cooldown", !.event = NoGesture,
                                !.value = None]
        /\ UNCHANGED <<emitted_at, hold, gateVars, failures, systemVars, directVars>>

\* The run of frames without a subject that is under way: whether there is
\* one (absent), whether it began with media playing and has seen no gesture
\* since (clean), and for a clean run whether some frame of it came more
\* than ABSENCE_TIMEOUT after last_face_time (beyond) and how many pause
\* commands its frames sent (pauses).
NotGone == [absent |-> FALSE, clean |-> TRUE, beyond |-> FALSE, pauses |-> 0]

GoneNext(g, s, present, type, t, pauses) ==
    IF present
    THEN NotGone
    ELSE LET clean == /\ type = NoGesture
                      /\ IF g.absent THEN g.clean ELSE ~s.media_paused
         IN  IF clean
             THEN [absent |-> TRUE, clean |-> TRUE,
                   beyond |-> \/ g.absent /\ g.beyond
                              \/ t - s.last_face_time > ABSENCE_TIMEOUT,
                   pauses |-> (IF g.absent THEN g.pauses ELSE 0) + pauses]
             ELSE [absent |-> TRUE, clean |-> FALSE, beyond |-> FALSE, pauses |-> 0]

\* What the detectors may report to process_frame: the hand, and the
\* weighted distance of the detected subjects (None: no face).
ContinuousHands ==
    {NoHand} \cup [fingers : {<<0, 1, 0, 0, 0>>, <<0, 1, 1, 0, 0>>}, x : {60}, y : {50}]
DiscreteHands ==
    {NoHand} \cup [fingers : {<<0, 1, 1, 1, 0>>}, x : {60}, y : {50}]
SysSubjects == {None, 100}

\* A device write on a tick of process_frame may raise (at most
\* MaxWriteFailures failing ticks are explored per behaviour).
SysWriteOutcomes(available) ==
    IF available /\ failures < MaxWriteFailures THEN BOOLEAN ELSE {TRUE}

\* One iteration of the main loop: process_frame, with the hand drawn from
\* hands, the subjects from subjects, and the clock not past horizon.  ok:
\* camera.read_frame delivered a frame; without one the call returns at once.
ProcessFrameStep(hands, subjects, horizon) ==
    \E ok \in BOOLEAN, hand \in hands, d \in subjects, dt \in 0..MaxDt,
       bw \in SysWriteOutcomes(bc.available), vw \in SysWriteOutcomes(vc.available) :
        /\ now + dt <= horizon
        /\ now' = now + dt
        /\ IF ~ok
           THEN /\ sobs' = [sobs EXCEPT !.op = "process_frame", !.frame = FALSE,
                                        !.event = NoGesture, !.value = None,
                                        !.subject = None,
                                        !.pauses = 0, !.resumes = 0,
                                        !.nexts = 0, !.prevs = 0,
                                        !.b_call = "none", !.v_call = "none"]
                /\ UNCHANGED <<sm, bc, vc, gc, failures>>
           ELSE \E t \in {now + dt},
                   r \in {ProcessFrameCall(sm, gc, bc, vc, hand, d, now + dt,
                                           bw, vw)} :
                    /\ r.g.finger_count_stable_frames <= MaxStableFrames
                    /\ sm' = [r.s EXCEPT !.mode_button_rect = ModeButtonRect]
                    /\ gc' = r.g
                    /\ bc' = r.b
                    /\ vc' = r.v
                    /\ sobs' = [op |-> "process_frame", frame |-> TRUE, subject |-> d,
                                event |-> r.type, value |-> r.value,
                                pauses |-> r.pauses, resumes |-> r.resumes,
                                nexts |-> r.nexts, prevs |-> r.prevs,
                                b_call |-> r.b_call, v_call |-> r.v_call,
                                gone |-> GoneNext(sobs.gone, sm, d # None, r.type,
                                                  t, r.pauses)]
                    /\ failures' = IF r.b_ret /\ r.v_ret THEN failures
                                   ELSE failures + 1
        /\ UNCHANGED <<last, early, applies, run, bwin, vwin, gobs, emitted_at, hold,
                       directVars>>

\* The iteration, the stay of the subject not being observed.
ProcessFrameOn(hands, subjects, horizon) ==
    ProcessFrameStep(hands, subjects, horizon) /\ UNCHANGED <<back, mobs>>

\* The stay of the subject after a call of process_frame that saw subject d
\* (None: no face, or no frame) at time t and made volume call v_call.
BackNext(b, frame, d, v_call, t) ==
    IF ~frame THEN b
    ELSE IF d = None
         THEN [muted |-> b.muted \/ v_call = "mute", since |-> None, d |-> None]
         ELSE IF b.d = d THEN b
              ELSE [muted |-> b.muted, since |-> t, d |-> d]
ObserveBack ==
    back' = BackNext(back, sobs'.frame, sobs'.subject, sobs'.v_call, now')

\* Subjects that leave and come back, at the same place or farther away.
ReturnSubjects == {None, 100, 150}

\* Frames without a hand while the subject comes and goes, observed per stay.
ProcessFrameReturn ==
    /\ ProcessFrameStep({NoHand}, ReturnSubjects, MaxReturnTime)
    /\ ObserveBack
    /\ UNCHANGED mobs

\* Frames on which one or two fingers may be shown (the continuous
\* gestures), over the time a gate needs to approve one update.
ProcessFrameContinuous == ProcessFrameOn(ContinuousHands, SysSubjects, MaxModeTime)

\* Frames on which three fingers may be shown (play/pause).
ProcessFrameDiscrete == ProcessFrameOn(DiscreteHands, SysSubjects, MaxModeTime)

\* Frames on which no hand is shown, over the longer horizon.
ProcessFrameNoHand == ProcessFrameOn({NoHand}, SysSubjects, MaxSysTime)

\* _on_mouse: the control mode after the callback for event at (x, y).
OnMouseCall(s, event, x, y) ==
    IF event = "EVENT_LBUTTONDOWN" /\ s.mode_button_rect # NoRect
    THEN IF /\ s.mode_button_rect.x1 <= x /\ x <= s.mode_button_rect.x2
            /\ s.mode_button_rect.y1 <= y /\ y <= s.mode_button_rect.y2
         THEN [s EXCEPT !.control_mode = NextControlMode(@)]
         ELSE s
    ELSE s

\* _on_mouse called between two frames with event at (x, y).
OnMouseStep(event, x, y) ==
    /\ sm' = OnMouseCall(sm, event, x, y)
    /\ sobs' = [sobs EXCEPT !.op = "on_mouse", !.frame = FALSE, !.subject = None,
                            !.event = NoGesture, !.value = None,
                            !.pauses = 0, !.resumes = 0, !.nexts = 0, !.prevs = 0,
                            !.b_call = "none", !.v_call = "none"]
    /\ UNCHANGED <<now, gateVars, failures, gestureVars, directVars, back>>

\* A left click in the middle of the mode button.
OnMouse == OnMouseStep("EVENT_LBUTTONDOWN", 850, 40) /\ UNCHANGED mobs

\* Mouse events of any kind anywhere on the preview, observed: the event,
\* whether the callback changed the mode, and the modes the last effective
\* clicks (at most MaxTrail) started from.
MouseEvents == {"EVENT_LBUTTONDOWN", "EVENT_RBUTTONDOWN", "EVENT_MOUSEMOVE"}
MousePoints == {<<760, 20>>, <<850, 40>>, <<940, 60>>, <<759, 40>>, <<850, 61>>}
InsideButton(x, y) ==
    /\ ModeButtonRect.x1 <= x /\ x <= ModeButtonRect.x2
    /\ ModeButtonRect.y1 <= y /\ y <= ModeButtonRect.y2
MouseNext(m, event, x, y, s, s2) ==
    [op |-> "on_mouse", event |-> event, inside |-> InsideButton(x, y),
     drawn |-> s.mode_button_rect # NoRect, from |-> s.control_mode,
     trail |-> IF s2.control_mode = s.control_mode THEN m.trail
               ELSE IF Len(m.trail) < MaxTrail THEN Append(m.trail, s.control_mode)
               ELSE Append(Tail(m.trail), s.control_mode)]
OnMouseEvent ==
    \E event \in MouseEvents, p \in MousePoints :
        /\ OnMouseStep(event, p[1], p[2])
        /\ mobs' = MouseNext(mobs, event, p[1], p[2], sm, sm')

\* Frames between the mouse events: no hand, a subject or none.
ProcessFrameShown ==
    /\ ProcessFrameStep({NoHand}, SysSubjects, MaxModeTime)
    /\ mobs' = [mobs EXCEPT !.op = "process_frame"]
    /\ UNCHANGED back

\* One iteration of the loop of run(): process_frame while is_running.
RunFrame ==
    /\ sm.is_running
    /\ ProcessFrameOn(ContinuousHands, SysSubjects, MaxModeTime)

\* The loop of run() ends, by the quit key, by KeyboardInterrupt or by an
\* exception out of process_frame, and its finally clause calls stop().
\* stop() calls neither controller and sends no media key.
Stop ==
    /\ sm.is_running
    /\ sm' = StopCall(sm)
    /\ sobs' = [sobs EXCEPT !.op = "stop", !.frame = FALSE, !.subject = None,
                            !.event = NoGesture, !.value = None,
                            !.pauses = 0, !.resumes = 0, !.nexts = 0, !.prevs = 0,
                            !.b_call = "none", !.v_call = "none"]
    /\ UNCHANGED <<now, gateVars, failures, gestureVars, directVars, back, mobs>>

\* ------------------------------------------------- controllers called directly
\* Arguments for set_brightness / set_volume (hundredths of a percent of
\* full scale), ambient light levels (0 .. 255) and noise levels.
\* weighted_adapter.calculate_weighted_distance(faces)
CalculateWeightedDistanceCall ==
    \E faces \in FaceLists :
        /\ wobs' = [op |-> "calculate_weighted_distance", faces |-> faces,
                    result |-> CalculateWeightedDistance(faces)]
        /\ UNCHANGED <<now, gateVars, failures, gestureVars, systemVars, calls, acall>>

SetArgs == {0, 6000, 15000}
AmbientLevels == {0, 125, 255}
NoiseLevels == {0, 10000}
RestoreLevels == {None, 8000}
\* Time between two direct adapt_to_distance calls: none, or just enough
\* for a gate to approve.
DirectDts == {0, STABLE_TIME_THRESHOLD}
\* What the display and the audio endpoint may report at construction.
DeviceLevels == {1000, 5000}

\* adapt_to_ambient_light: the brightness for an ambient level.
AmbientTarget(level) ==
    IF level < DARK_THRESHOLD
    THEN 4000
    ELSE IF level > BRIGHT_THRESHOLD
         THEN 10000
         ELSE 100 * (40 + (60 * (level - DARK_THRESHOLD))
                            \div (BRIGHT_THRESHOLD - DARK_THRESHOLD))

\* adapt_to_background_noise: min(1.0, 0.5 + noise_level * 0.4)
NoiseTarget(noise) == Min2(10000, 5000 + (4 * noise) \div 10)

\* A call of method op on the brightness controller that hands value and
\* smooth to set_brightness and leaves the controller as r.c.
BrightnessCalled(op, value, smooth, raised, r) ==
    /\ calls < MaxCalls
    /\ calls' = calls + 1
    /\ acall' = [on |-> "brightness", op |-> op, value |-> value, smooth |-> smooth,
                 raised |-> raised, ret |-> r.ret]
    /\ bc' = r.c
    /\ failures' = IF r.ret THEN failures ELSE failures + 1
    /\ UNCHANGED <<vc, last, early, applies, run, bwin, vwin, gestureVars, systemVars,
                   wobs>>

\* A call of method op on the volume controller that hands value and smooth
\* to set_volume and leaves the controller as r.c.
VolumeCalled(op, value, smooth, raised, r) ==
    /\ calls < MaxCalls
    /\ calls' = calls + 1
    /\ acall' = [on |-> "volume", op |-> op, value |-> value, smooth |-> smooth,
                 raised |-> raised, ret |-> r.ret]
    /\ vc' = r.c
    /\ failures' = IF r.ret THEN failures ELSE failures + 1
    /\ UNCHANGED <<bc, last, early, applies, run, bwin, vwin, gestureVars, systemVars,
                   wobs>>

\* What a method hands to set_brightness / set_volume, and the outcome.
SetBrightnessVia(op, value, smooth, wr) ==
    \E r \in {SetBrightness(bc, value, smooth, wr)} :
        BrightnessCalled(op, value, smooth, r.raised, r) /\ UNCHANGED now

SetVolumeVia(op, value, smooth, wr) ==
    \E r \in {SetVolume(vc, value, smooth, wr)} :
        VolumeCalled(op, value, smooth, r.raised, r) /\ UNCHANGED now

SetBrightnessCall ==
    \E value \in SetArgs, smooth \in BOOLEAN, wr \in SysWriteOutcomes(bc.available) :
        SetBrightnessVia("set_brightness", value, smooth, wr)

IncreaseBrightness ==
    \E wr \in SysWriteOutcomes(bc.available) :
        SetBrightnessVia("increase_brightness", bc.current_brightness + 500, FALSE, wr)

DecreaseBrightness ==
    \E wr \in SysWriteOutcomes(bc.available) :
        SetBrightnessVia("decrease_brightness", bc.current_brightness - 500, FALSE, wr)

AdaptToAmbientLight ==
    \E level \in AmbientLevels, wr \in SysWriteOutcomes(bc.available) :
        SetBrightnessVia("adapt_to_ambient_light", AmbientTarget(level), TRUE, wr)

BrightnessAdaptToDistance ==
    \E d \in {100, 150}, dt \in DirectDts, wr \in SysWriteOutcomes(bc.available) :
        /\ now + dt <= MaxTime
        /\ now' = now + dt
        /\ \E r \in {BrightnessAdapt(bc, d, now + dt, wr)} :
              BrightnessCalled("adapt_to_distance", r.set, FALSE, ~r.ret, r)

SetVolumeCall ==
    \E value \in SetArgs, smooth \in BOOLEAN, wr \in SysWriteOutcomes(vc.available) :
        SetVolumeVia("set_volume", value, smooth, wr)

IncreaseVolume ==
    \E wr \in SysWriteOutcomes(vc.available) :
        SetVolumeVia("increase_volume", vc.current_volume + 500, FALSE, wr)

DecreaseVolume ==
    \E wr \in SysWriteOutcomes(vc.available) :
        SetVolumeVia("decrease_volume", vc.current_volume - 500, FALSE, wr)

Mute ==
    \E wr \in SysWriteOutcomes(vc.available) :
        SetVolumeVia("mute", 0, FALSE, wr)

Unmute ==
    \E restore_level \in RestoreLevels, wr \in SysWriteOutcomes(vc.available) :
        SetVolumeVia("unmute", IF restore_level # None THEN restore_level
                               ELSE vc.target_volume, FALSE, wr)

AdaptToBackgroundNoise ==
    \E noise \in NoiseLevels, wr \in SysWriteOutcomes(vc.available) :
        SetVolumeVia("adapt_to_background_noise", NoiseTarget(noise), TRUE, wr)

VolumeAdaptToDistance ==
    \E d \in {100, 150}, dt \in DirectDts, wr \in SysWriteOutcomes(vc.available) :
        /\ now + dt <= MaxTime
        /\ now' = now + dt
        /\ \E r \in {VolumeAdapt(vc, d, now + dt, wr)} :
              VolumeCalled("adapt_to_distance", r.set, FALSE, ~r.ret, r)

\* ----------------------------------------------------------- observations
\* History variables: they record what the calls did and never feed back
\* into the controllers.
RestartBranches == {"grace", "moving", "start", "first"}

\* Calls evaluated strictly after the call that last restarted the timer:
\* smallest and largest raw distance, and whether each of them was below the
\* movement threshold from last_distance as it stood before the call.
WinNext(w, c, d, t, br) ==
    IF br \in RestartBranches
    THEN [lo |-> None, hi |-> None, ok |-> TRUE]
    ELSE [lo |-> IF t > c.distance_stable_since
                 THEN (IF w.lo = None THEN d ELSE Min2(w.lo, d)) ELSE w.lo,
          hi |-> IF t > c.distance_stable_since
                 THEN (IF w.hi = None THEN d ELSE Max2(w.hi, d)) ELSE w.hi,
          ok |-> w.ok /\ c.last_distance # None /\ Below5cm(d, c.last_distance)]

ObserveWin ==
    /\ bwin' = WinNext(bwin, bc, last'.d, now', last'.b_branch)
    /\ vwin' = WinNext(vwin, vc, last'.d, now', last'.v_branch)

\* The calls since construction, kept while they all lie in one 5 cm window
\* and less than STABLE_TIME_THRESHOLD has passed since the first of them.
EarlyNext(e, d, t) ==
    LET first == IF e.first = None THEN t ELSE e.first
        lo == IF e.first = None THEN d ELSE Min2(e.lo, d)
        hi == IF e.first = None THEN d ELSE Max2(e.hi, d)
        calm == e.calm /\ hi - lo <= 5 /\ t - first < STABLE_TIME_THRESHOLD
    IN  [first |-> first,
         lo |-> IF calm THEN lo ELSE None,
         hi |-> IF calm THEN hi ELSE None,
         calm |-> calm]

ObserveEarly == early' = EarlyNext(early, last'.d, now')

\* The current run of consecutive calls with the same raw distance: when it
\* began, what each gate had last applied before it, and the updates each
\* gate applied during it.
RunNext(r, d, t, bbr, vbr) ==
    LET b == IF bbr = "apply" THEN 1 ELSE 0
        v == IF vbr = "apply" THEN 1 ELSE 0
    IN  IF last.d # d
        THEN [start |-> t, b_from |-> bc.last_updated_distance,
              v_from |-> vc.last_updated_distance, b_applies |-> b, v_applies |-> v]
        ELSE [r EXCEPT !.b_applies = @ + b, !.v_applies = @ + v]

ObserveRun == run' = RunNext(run, last'.d, now', last'.b_branch, last'.v_branch)

\* ---------------------------------------------------------- specifications
\* Everything but the two controllers, after construction.
InitOther ==
    /\ now = 0
    /\ last = [d |-> None, b_from |-> None, v_from |-> None,
               b_branch |-> "none", v_branch |-> "none",
               b_set |-> None, v_set |-> None, b_ret |-> TRUE, v_ret |-> TRUE]
    /\ early = [first |-> None, lo |-> None, hi |-> None, calm |-> TRUE]
    /\ applies = [b |-> 0, v |-> 0]
    /\ run = [start |-> None, b_from |-> None, v_from |-> None,
              b_applies |-> 0, v_applies |-> 0]
    /\ bwin = [lo |-> None, hi |-> None, ok |-> TRUE]
    /\ vwin = [lo |-> None, hi |-> None, ok |-> TRUE]
    /\ failures = 0
    /\ gc = GestureInit0
    /\ gobs = [op |-> "none", fc |-> None, extended |-> None,
               event |-> NoGesture, value |-> None, streak |-> 0]
    /\ emitted_at = [k \in DiscreteKinds |-> [at |-> None, before |-> None]]
    /\ hold = [fc |-> None, emits |-> 0]
    /\ sm = StartCall(SystemManagerInit(0))
    /\ calls = 0
    /\ acall = [on |-> "none", op |-> "none", value |-> None, smooth |-> FALSE,
                raised |-> FALSE, ret |-> TRUE]
    /\ wobs = [op |-> "none", faces |-> <<>>,
               result |-> [num |-> 0, den |-> 1, ulps |-> 0]]
    /\ back = [muted |-> FALSE, since |-> None, d |-> None]
    /\ mobs = [op |-> "none", event |-> "none", inside |-> FALSE, drawn |-> FALSE,
               from |-> None, trail |-> <<>>]
    /\ sobs = [op |-> "none", frame |-> FALSE, subject |-> None,
               event |-> NoGesture, value |-> None,
               pauses |-> 0, resumes |-> 0, nexts |-> 0, prevs |-> 0,
               b_call |-> "none", v_call |-> "none", gone |-> NotGone]

\* After construction, with devices (if any) that report 50 %.
Init ==
    /\ bc \in {BrightnessInit(a, 5000) : a \in BOOLEAN}
    /\ vc \in {VolumeInit(a, 5000) : a \in BOOLEAN}
    /\ InitOther

\* The gate observed per run of equal inputs.
RunNextStep == AdaptToDistance /\ ObserveRun /\ UNCHANGED <<early, bwin, vwin>>
SpecRun == Init /\ [][RunNextStep]_vars

\* The gate observed per stable period.
WinNextStep == AdaptToDistance /\ ObserveWin /\ UNCHANGED <<early, run>>
SpecWin == Init /\ [][WinNextStep]_vars

\* The gate observed from construction.
EarlyNextStep == AdaptToDistance /\ ObserveEarly /\ UNCHANGED <<run, bwin, vwin>>
SpecEarly == Init /\ [][EarlyNextStep]_vars

\* The gate fed with distances across the range of the curves.
CurveNextStep == AdaptToCurveDistance /\ UNCHANGED <<early, run, bwin, vwin>>
SpecCurve == Init /\ [][CurveNextStep]_vars

\* The weighted adapter called with the faces of one frame after another.
SpecWeighted == Init /\ [][CalculateWeightedDistanceCall]_vars

\* run(): frames until the loop ends, then stop().
ShutdownNext == RunFrame \/ Stop
SpecShutdown == Init /\ [][ShutdownNext]_vars

\* The gesture classifier: frames and cooldown updates in any order.
GestureNext == DetectGestures \/ UpdateCooldown
\* The gesture pipeline on its own, with both output devices present.
GestureInit == Init /\ bc.available /\ vc.available
SpecGesture == GestureInit /\ [][GestureNext]_vars

\* The gesture classifier observed per run of equal frames.
HoldNextStep == DetectGesturesHeld \/ UpdateCooldown
SpecHold == GestureInit /\ [][HoldNextStep]_vars

\* The classifier called directly, with cooldown updates in between.
ClassifyNext == ClassifyGestureCall \/ UpdateCooldown
SpecClassify == GestureInit /\ [][ClassifyNext]_vars

\* The main loop: frames, with clicks on the mode button in between.
\* Both controllers in simulation mode (no output device; no write can fail).
SimulatedInit == Init /\ ~bc.available /\ ~vc.available
\* The two controllers on their own, constructed over devices that report
\* any of DeviceLevels and then called directly.
ActuatorInit ==
    /\ InitOther
    /\ bc \in {BrightnessInit(a, l) : a \in BOOLEAN, l \in DeviceLevels}
    /\ vc \in {VolumeInit(a, l) : a \in BOOLEAN, l \in DeviceLevels}
ActuatorNext ==
    \/ SetBrightnessCall \/ IncreaseBrightness \/ DecreaseBrightness
    \/ AdaptToAmbientLight \/ BrightnessAdaptToDistance
    \/ SetVolumeCall \/ IncreaseVolume \/ DecreaseVolume
    \/ Mute \/ Unmute \/ AdaptToBackgroundNoise \/ VolumeAdaptToDistance
SpecActuator == ActuatorInit /\ [][ActuatorNext]_vars

\* set_brightness(v, smooth=True) called again and again with one target v
\* of the domain [BRIGHTNESS_MIN, BRIGHTNESS_MAX]: the first call picks v,
\* every later call repeats it.  The caller keeps calling (weak fairness)
\* and the device raises at most MaxWriteFailures times.
SmoothTargets == {2000, 6000, 10000}

SetBrightnessRepeated ==
    \E value \in SmoothTargets, wr \in SysWriteOutcomes(bc.available) :
        /\ acall.on = "none" \/ acall.value = value
        /\ \E r \in {SetBrightness(bc, value, TRUE, wr)} :
              /\ acall' = [on |-> "brightness", op |-> "set_brightness",
                           value |-> value, smooth |-> TRUE,
                           raised |-> r.raised, ret |-> r.ret]
              /\ bc' = r.c
              /\ failures' = IF r.ret THEN failures ELSE failures + 1
        /\ UNCHANGED <<now, calls, vc, last, early, applies, run, bwin, vwin,
                       gestureVars, systemVars, wobs>>

SpecSmooth ==
    ActuatorInit /\ [][SetBrightnessRepeated]_vars /\ WF_vars(SetBrightnessRepeated)

\* The main loop under mouse events of every kind.
MouseNextStep == ProcessFrameShown \/ OnMouseEvent
SpecMouse == SimulatedInit /\ [][MouseNextStep]_vars

\* The main loop under continuous gestures: the control modes at work.
ModesNext == ProcessFrameContinuous \/ OnMouse
SpecModes == SimulatedInit /\ [][ModesNext]_vars

\* The main loop under the play/pause gesture.
ToggleNext == ProcessFrameDiscrete \/ OnMouse
SpecToggle == SimulatedInit /\ [][ToggleNext]_vars

\* The main loop while nobody shows a hand: presence alone drives the media.
PresenceNext == ProcessFrameNoHand \/ OnMouse
SpecPresence == Init /\ [][PresenceNext]_vars

\* The main loop in hybrid mode while the subject comes and goes.
SpecReturn == SimulatedInit /\ [][ProcessFrameReturn]_vars

\* ------------------------------------------------------------ stability gate
\* Whether raw distance d is at least DISTANCE_GRACE_RANGE away from what a
\* gate applied before (from), as the code evaluates it.
Beyond(d, from) == from # None /\ ~Below5cm(d, from)

\* C1: after a gate has applied an update at one distance, a run of calls
\* with one constant raw distance at least the grace range away from it
\* (100 cm then 150 cm) that has lasted STABLE_TIME_THRESHOLD or longer has
\* applied exactly one update: last_updated_distance is that distance, the
\* value handed to set_brightness / set_volume was the one mapped from it,
\* and no later call of the run applies again.
C1_HeldDistanceAppliedOnce ==
    /\ (/\ run.start # None
        /\ now - run.start >= STABLE_TIME_THRESHOLD
        /\ Beyond(last.d, run.b_from))
       => /\ run.b_applies = 1
          /\ bc.last_updated_distance = last.d
          /\ last.b_branch \in {"apply", "grace"}
          /\ last.b_branch = "apply" => last.b_set = 100 * BrightnessCurve(last.d)
          /\ failures = 0 =>
                Abs(bc.current_brightness - 100 * BrightnessCurve(last.d))
                    < BRIGHTNESS_STEP
    /\ (/\ run.start # None
        /\ now - run.start >= STABLE_TIME_THRESHOLD
        /\ Beyond(last.d, run.v_from))
       => /\ run.v_applies = 1
          /\ vc.last_updated_distance = last.d
          /\ last.v_branch \in {"apply", "grace"}
          /\ last.v_branch = "apply" => last.v_set = VolumeCurve(last.d)
          /\ failures = 0 =>
                Abs(vc.current_volume - VolumeCurve(last.d)) < VOLUME_STEP

\* 100 cm was applied, then 150 cm was held for the stable duration, applied
\* once (brightness 53 %), and a later call at 150 cm applied nothing.
C1_Witness ==
    /\ last.d = 150 /\ run.b_from = 100 /\ run.v_from = 100
    /\ now - run.start >= STABLE_TIME_THRESHOLD
    /\ run.b_applies = 1 /\ run.v_applies = 1
    /\ last.b_branch = "grace" /\ last.v_branch = "grace"
    /\ bc.last_updated_distance = 150 /\ bc.current_brightness = 5300
    /\ vc.current_volume = 7155

\* C2 as stated: a gate applies d only if the stable duration has passed, d
\* is at least the grace range from the last applied distance (or nothing was
\* applied), and every raw distance evaluated during the
\* STABLE_TIME_THRESHOLD before the apply is within 5 cm of d.  (The
\* observation bwin covers exactly that period when the timer is exactly
\* STABLE_TIME_THRESHOLD old.)
C2_AsStated ==
    last.b_branch = "apply" =>
        /\ now - bc.distance_stable_since >= STABLE_TIME_THRESHOLD
        /\ last.b_from = None \/ Abs(last.d - last.b_from) >= 5
        /\ (now - bc.distance_stable_since = STABLE_TIME_THRESHOLD /\ bwin.lo # None)
              => (last.d - bwin.lo <= 5 /\ bwin.hi - last.d <= 5)

\* C2, what the gates do guarantee: a gate applies d only if distance_stable_since is set and
\* at least STABLE_TIME_THRESHOLD old, d is at least DISTANCE_GRACE_RANGE
\* from last_updated_distance (or nothing was applied yet), and every call
\* since the timer was last restarted was less than 5 cm from last_distance
\* (the raw distance of the call before it that the grace check did not
\* suppress); the distances of that period may drift further than 5 cm
\* from d.
C2_ApplyOnlyWhenStable ==
    /\ last.b_branch = "apply" =>
          /\ bc.distance_stable_since # None
          /\ now - bc.distance_stable_since >= STABLE_TIME_THRESHOLD
          /\ last.b_from = None \/ Abs(last.d - last.b_from) >= 5
          /\ bwin.ok
    /\ last.v_branch = "apply" =>
          /\ vc.distance_stable_since # None
          /\ now - vc.distance_stable_since >= STABLE_TIME_THRESHOLD
          /\ last.v_from = None \/ Abs(last.d - last.v_from) >= 5
          /\ vwin.ok

\* An apply at the end of a slow drift: a distance evaluated during the
\* stable period lies more than 5 cm from the applied one.
C2_Witness ==
    /\ last.b_branch = "apply" /\ last.v_branch = "apply"
    /\ now - bc.distance_stable_since = STABLE_TIME_THRESHOLD
    /\ bwin.lo # None /\ last.d - bwin.lo > 5
    /\ bwin.ok /\ vwin.ok

\* C3: from construction, while all raw distances so far lie in one 5 cm
\* window and less than STABLE_TIME_THRESHOLD has passed since the first
\* call, no update has been applied: set_brightness / set_volume were never
\* invoked and last_updated_distance is unset.
C3_NoEarlyUpdate ==
    (early.first # None /\ early.calm) =>
        /\ applies.b = 0 /\ applies.v = 0
        /\ bc.last_updated_distance = None /\ vc.last_updated_distance = None
        /\ bc.brightness_history = <<>> /\ vc.volume_history = <<>>
        /\ bc.current_brightness = 5000 /\ vc.current_volume = 5000

\* Calls at 98, 103 and 100 cm, two ticks after the first call.
C3_Witness ==
    /\ early.calm /\ early.lo = 98 /\ early.hi = 103 /\ last.d = 100
    /\ now - early.first = STABLE_TIME_THRESHOLD - 1
    /\ applies.b = 0 /\ applies.v = 0

\* C4: a call whose raw distance is inside the grace range of
\* last_updated_distance applies nothing: it sets distance_stable_since to
\* now and leaves last_updated_distance, last_distance and the actuator
\* (current value, target, history) as they were.
C4_GraceTickSuppressed ==
    [][/\ (bc.last_updated_distance # None
             /\ Below5cm(last'.d, bc.last_updated_distance))
          => /\ bc' = [bc EXCEPT !.distance_stable_since = now']
             /\ last'.b_set = None /\ applies'.b = applies.b
       /\ (vc.last_updated_distance # None
             /\ Below5cm(last'.d, vc.last_updated_distance))
          => /\ vc' = [vc EXCEPT !.distance_stable_since = now']
             /\ last'.v_set = None /\ applies'.v = applies.v]_vars

\* A distance inside the grace range of the applied one, held for the stable
\* duration and longer, with nothing applied.
C4_Witness ==
    /\ last.b_branch = "grace" /\ last.v_branch = "grace"
    /\ last.d # bc.last_updated_distance
    /\ run.start # None /\ now - run.start >= STABLE_TIME_THRESHOLD
    /\ run.b_applies = 0 /\ run.v_applies = 0
    /\ bc.distance_stable_since = now

\* ------------------------------------------------------ gesture classifier
\* The step is a call of detect_gestures.
FrameShown == gobs'.op = "detect_gestures"

\* A frame on which the hand shows a discrete gesture other than the
\* registered one, held for stability_threshold frames, with gesture control
\* active, while a discrete gesture is registered and its cooldown flag set.
DifferentDiscreteShown ==
    /\ FrameShown
    /\ gc.in_cooldown /\ gc.registered_gesture \in DiscreteKinds
    /\ gc.gesture_active
    /\ gobs'.fc \in {3, 4, 5}
    /\ gobs'.fc # gc.registered_finger_count
    /\ gobs'.streak >= stability_threshold

C6_NoRepeatWithinCooldown ==
    \A k \in DiscreteKinds :
        emitted_at[k].before # None
            => emitted_at[k].at - emitted_at[k].before >= cooldown_seconds

\* play_pause has been emitted twice.
C6_Witness ==
    /\ emitted_at["play_pause"].before # None
    /\ gobs.event = "play_pause"
    /\ now = emitted_at["play_pause"].at

\* C7 as stated: every frame showing one finger returns volume_control and
\* every frame showing two fingers returns brightness_control.
C7_AsStated ==
    [][/\ (FrameShown /\ gobs'.fc = 1) => gobs'.event = "volume_control"
       /\ (FrameShown /\ gobs'.fc = 2) => gobs'.event = "brightness_control"]_vars

\* C8 as stated: with gesture control disabled, a fist shown on a frame
\* that follows a frame without a fist enables gesture control on that frame.
C8_AsStated ==
    [][(FrameShown /\ ~gc.gesture_active /\ gobs'.fc = 0 /\ gobs.fc # 0)
       => gc'.gesture_active]_vars

\* C9: a fist shown while the cooldown started by a discrete gesture is
\* still running returns toggle_gestures on that frame and flips
\* gesture_active.
C9_FistDuringDiscreteCooldown ==
    [][(/\ FrameShown
        /\ gobs'.fc = 0
        /\ gc.in_cooldown /\ gc.registered_gesture \in DiscreteKinds
        /\ now' - gc.cooldown_start_time < cooldown_seconds)
       => /\ gobs'.event = "toggle_gestures"
          /\ gc'.gesture_active = ~gc.gesture_active]_vars

\* A fist has just toggled gesture control off less than cooldown_seconds
\* after next_track was emitted.
C9_Witness ==
    /\ gobs.event = "toggle_gestures" /\ gobs.fc = 0
    /\ ~gc.gesture_active
    /\ emitted_at["next_track"].at # None
    /\ now - emitted_at["next_track"].at < cooldown_seconds
    /\ gc.cooldown_start_time = now

\* C10: a discrete gesture is returned only with gesture control active and
\* for a finger count of 3, 4 or 5 shown on at least stability_threshold
\* consecutive frames up to this one (a frame without a hand or with another
\* finger count restarts the count).
C10_DiscreteNeedsStableActive ==
    gobs.event \in DiscreteKinds =>
        /\ gc.gesture_active
        /\ gobs.fc \in {3, 4, 5}
        /\ gobs.event = DiscreteOf(gobs.fc)
        /\ gobs.streak >= stability_threshold

\* prev_track returned on a five-finger frame that follows a five-finger
\* frame, cooldown_seconds or more into the run.
C10_Witness ==
    /\ gobs.event = "prev_track" /\ gobs.fc = 5
    /\ gobs.streak >= stability_threshold
    /\ gc.gesture_active
    /\ now >= cooldown_seconds

\* C11: a frame without a hand returns nothing and leaves in_cooldown,
\* cooldown_start_time, registered_gesture, registered_finger_count and
\* gesture_active as they were; it clears last_hand_x, last_hand_y and the
\* finger-count stability counter (and hand_present).
C11_NoHandKeepsCooldown ==
    [][(FrameShown /\ gobs'.fc = None)
       => /\ gobs'.event = NoGesture
          /\ gc'.in_cooldown = gc.in_cooldown
          /\ gc'.cooldown_start_time = gc.cooldown_start_time
          /\ gc'.registered_gesture = gc.registered_gesture
          /\ gc'.registered_finger_count = gc.registered_finger_count
          /\ gc'.gesture_active = gc.gesture_active
          /\ gc'.last_hand_x = None /\ gc'.last_hand_y = None
          /\ gc'.last_finger_count = None
          /\ gc'.finger_count_stable_frames = 0
          /\ ~gc'.hand_present]_vars

\* The hand has left the frame during the cooldown of next_track: the
\* cooldown is still running from the time of the emission.
C11_Witness ==
    /\ gobs.op = "detect_gestures" /\ gobs.fc = None
    /\ gc.in_cooldown /\ gc.registered_gesture = "next_track"
    /\ gc.cooldown_start_time = emitted_at["next_track"].at
    /\ now > gc.cooldown_start_time
    /\ now - gc.cooldown_start_time < cooldown_seconds
    /\ gc.last_hand_x = None /\ gc.finger_count_stable_frames = 0

\* C12: on a frame at or after cooldown_seconds since the cooldown started,
\* a discrete gesture (of the registered kind or another) held for
\* stability_threshold frames with gesture control active is emitted and
\* starts a new cooldown, although in_cooldown was still set when the frame
\* arrived (nothing had cleared it).
C12_ExpiredCooldownDoesNotBlock ==
    [][(/\ FrameShown
        /\ gc.in_cooldown
        /\ now' - gc.cooldown_start_time >= cooldown_seconds
        /\ gc.gesture_active
        /\ gobs'.fc \in {3, 4, 5}
        /\ gobs'.streak >= stability_threshold)
       => /\ gobs'.event = DiscreteOf(gobs'.fc)
          /\ emitted_at'[gobs'.event].at = now'
          /\ gc'.in_cooldown /\ gc'.cooldown_start_time = now'
          /\ gc'.registered_gesture = gobs'.event]_vars

\* next_track has been emitted a second time, exactly cooldown_seconds
\* after the first, on the second four-finger frame since the hand appeared.
C12_Witness ==
    /\ gobs.event = "next_track"
    /\ emitted_at["next_track"].before # None
    /\ emitted_at["next_track"].at - emitted_at["next_track"].before
          = cooldown_seconds
    /\ gc.finger_count_stable_frames = stability_threshold
    /\ gc.cooldown_start_time = now

FrameProcessed == sobs'.op = "process_frame" /\ sobs'.frame

GateOf(c) == <<c.last_distance, c.distance_stable_since, c.last_updated_distance>>

C20_AsStated ==
    /\ BRIGHTNESS_MIN <= bc.current_brightness
    /\ bc.current_brightness <= BRIGHTNESS_MAX
    /\ VOLUME_MIN <= vc.current_volume
    /\ vc.current_volume <= VOLUME_MAX

\* C20, the part the methods do guarantee: a current value inside the
\* actuator's range is never taken out of it by a call.
C20_CallsKeepRange ==
    [][/\ (BRIGHTNESS_MIN <= bc.current_brightness
             /\ bc.current_brightness <= BRIGHTNESS_MAX)
          => (BRIGHTNESS_MIN <= bc'.current_brightness
                /\ bc'.current_brightness <= BRIGHTNESS_MAX)
       /\ (VOLUME_MIN <= vc.current_volume /\ vc.current_volume <= VOLUME_MAX)
          => (VOLUME_MIN <= vc'.current_volume
                /\ vc'.current_volume <= VOLUME_MAX)]_vars

\* A value below the range read at construction is still below the range
\* after a smoothed set_brightness call.
C20_Witness ==
    /\ calls > 0
    /\ bc.available
    /\ bc.current_brightness < BRIGHTNESS_MIN
    /\ bc.current_brightness > 1000

\* A step that is a direct call on a controller which got as far as
\* set_brightness / set_volume.
SetReached == calls' = calls + 1 /\ acall'.value # None

\* The value set_brightness / set_volume computes from the request handed to
\* it, and whether it differs from the current value by the minimum step.
NewBrightness ==
    LET v == Clamp(BRIGHTNESS_MIN, acall'.value, BRIGHTNESS_MAX)
    IN  IF acall'.smooth
        THEN (BRIGHTNESS_SMOOTHING * v
                + (10 - BRIGHTNESS_SMOOTHING) * bc.current_brightness) \div 10
        ELSE v
NewVolume ==
    LET v == Clamp(VOLUME_MIN, acall'.value, VOLUME_MAX)
    IN  IF acall'.smooth
        THEN (VOLUME_SMOOTHING * v + (10 - VOLUME_SMOOTHING) * vc.current_volume)
             \div 10
        ELSE v
BrightnessStepReached == Abs(NewBrightness - bc.current_brightness) >= BRIGHTNESS_STEP
VolumeStepReached == Abs(NewVolume - vc.current_volume) >= VOLUME_STEP

\* C21: set_brightness / set_volume stores the new value (current value and
\* history) if and only if it differs from the current value by at least the
\* minimum step; otherwise nothing is stored and True is returned.
C21_AsStated ==
    [][SetReached
       => /\ acall'.on = "brightness"
               => IF BrightnessStepReached
                  THEN /\ bc'.current_brightness = NewBrightness
                       /\ bc'.brightness_history
                            = DequeAppend(bc.brightness_history, NewBrightness)
                  ELSE /\ bc'.current_brightness = bc.current_brightness
                       /\ bc'.brightness_history = bc.brightness_history
                       /\ acall'.ret
          /\ acall'.on = "volume"
               => IF VolumeStepReached
                  THEN /\ vc'.current_volume = NewVolume
                       /\ vc'.volume_history = DequeAppend(vc.volume_history, NewVolume)
                  ELSE /\ vc'.current_volume = vc.current_volume
                       /\ vc'.volume_history = vc.volume_history
                       /\ acall'.ret]_vars

\* C21, amended: the new value is stored (current value and history) and
\* True returned if and only if it differs from the current value by at
\* least the minimum step and the device write does not raise; the write is
\* attempted only in that case and only with a device.  Below the minimum
\* step nothing is stored and True is returned.
C21_StoredIffStepAndWritten ==
    [][SetReached
       => /\ acall'.on = "brightness"
               => /\ acall'.raised => (BrightnessStepReached /\ bc.available)
                  /\ IF BrightnessStepReached /\ ~acall'.raised
                     THEN /\ bc'.current_brightness = NewBrightness
                          /\ bc'.brightness_history
                               = DequeAppend(bc.brightness_history, NewBrightness)
                          /\ acall'.ret
                     ELSE /\ bc'.current_brightness = bc.current_brightness
                          /\ bc'.brightness_history = bc.brightness_history
                          /\ acall'.ret = ~acall'.raised
          /\ acall'.on = "volume"
               => /\ acall'.raised => (VolumeStepReached /\ vc.available)
                  /\ IF VolumeStepReached /\ ~acall'.raised
                     THEN /\ vc'.current_volume = NewVolume
                          /\ vc'.volume_history
                               = DequeAppend(vc.volume_history, NewVolume)
                          /\ acall'.ret
                     ELSE /\ vc'.current_volume = vc.current_volume
                          /\ vc'.volume_history = vc.volume_history
                          /\ acall'.ret = ~acall'.raised]_vars

\* A second smoothed set_brightness(60) moved the brightness from 53 % to
\* 55.1 %: both values are in the history.
C21_Witness ==
    /\ acall.op = "set_brightness" /\ acall.smooth /\ acall.value = 6000
    /\ bc.brightness_history = <<5300, 5510>>
    /\ bc.current_brightness = 5510

\* C22: when the device write raises inside set_brightness / set_volume the
\* call returns False and the current value and the history are exactly as
\* before the call.
C22_FailedWriteKeepsState ==
    [][(SetReached /\ acall'.raised)
       => /\ ~acall'.ret
          /\ bc'.current_brightness = bc.current_brightness
          /\ bc'.brightness_history = bc.brightness_history
          /\ vc'.current_volume = vc.current_volume
          /\ vc'.volume_history = vc.volume_history]_vars

\* A set_volume call whose device write raised, after one that went through.
C22_Witness ==
    /\ acall.op = "set_volume" /\ acall.raised /\ ~acall.ret
    /\ vc.available
    /\ Len(vc.volume_history) = 1
    /\ Abs(Clamp(VOLUME_MIN, acall.value, VOLUME_MAX) - vc.current_volume) >= VOLUME_STEP

\* C23: when the device write of a gate-approved distance update fails, the
\* same update (the value mapped from that distance) is attempted again on
\* the next call made with the same distance.
C23_AsStated ==
    [][/\ (last.b_branch = "apply" /\ ~last.b_ret /\ last'.d = last.d)
          => (last'.b_branch = "apply" /\ last'.b_set = last.b_set)
       /\ (last.v_branch = "apply" /\ ~last.v_ret /\ last'.d = last.d)
          => (last'.v_branch = "apply" /\ last'.v_set = last.v_set)]_vars

\* A direct call of _classify_gesture took place.
Classified == gobs'.op = "_classify_gesture"

\* C24: a malformed gesture signal, finger count 0 with a finger vector in
\* which at least one finger is extended, emits no event and leaves
\* gesture_active, in_cooldown, cooldown_start_time and the registered
\* gesture as they were.
C24_MalformedFistDiscarded ==
    [][(Classified /\ gobs'.fc = 0 /\ gobs'.extended > 0)
         => /\ gobs'.event = NoGesture
            /\ gobs'.value = None
            /\ gc'.gesture_active = gc.gesture_active
            /\ gc'.in_cooldown = gc.in_cooldown
            /\ gc'.cooldown_start_time = gc.cooldown_start_time
            /\ gc'.registered_gesture = gc.registered_gesture
            /\ gc'.registered_finger_count = gc.registered_finger_count]_vars

\* C24 witness: a malformed fist was discarded while no toggle was
\* registered, where a well-formed fist would have toggled.
C24_Witness ==
    /\ gobs.op = "_classify_gesture" /\ gobs.fc = 0 /\ gobs.extended > 0
    /\ gobs.event = NoGesture
    /\ gc.registered_gesture # "toggle_gestures"
    /\ now > 0

\* A gate-approved brightness update took place.
BrightnessApplied == last'.b_branch = "apply" /\ last'.d # None

WeightOf(face) ==
    CalculateDistanceWeight(face.distance) * CalculateSpatialWeight(face.position)

\* C26: calculate_weighted_distance returns the weighted mean of the
\* distances with per-subject weight distance_weight * spatial_weight; for
\* a subject nearer than DISTANCE_THRESHOLD_NEAR at the centre (weight 3.0)
\* and a farther one at the edge (weight 1.0) that is strictly less than the
\* unweighted mean, and 75 cm for 60 cm and 120 cm (distances in tenths of
\* a centimetre).
C26_WeightedMean ==
    (wobs.op = "calculate_weighted_distance" /\ wobs.faces # <<>>)
      => LET f == wobs.faces
             r == wobs.result
             n == Len(f)
             sumw == SeqSum([i \in 1..n |-> WeightOf(f[i])])
             sumwd == SeqSum([i \in 1..n |-> WeightOf(f[i]) * f[i].distance])
         IN  /\ r.den > 0
             /\ r.num * sumw = sumwd * r.den
             /\ (/\ n = 2
                 /\ f[1].distance < 10 * DISTANCE_THRESHOLD_NEAR
                 /\ f[1].position = <<50, 50>>
                 /\ f[2].distance >= 10 * DISTANCE_THRESHOLD_NEAR
                 /\ f[2].position = <<80, 40>>)
                  => /\ WeightOf(f[1]) = 300 /\ WeightOf(f[2]) = 100
                     /\ 2 * r.num < (f[1].distance + f[2].distance) * r.den
                     /\ (f[1].distance = 600 /\ f[2].distance = 1200)
                          => r.num = 750 * r.den /\ r.ulps = 0

\* C26 witness: the adapter was given a subject at 60 cm in the centre and
\* one at 120 cm at the edge, and returned 75 cm.
C26_Witness ==
    /\ wobs.op = "calculate_weighted_distance"
    /\ wobs.faces = <<[distance |-> 600, position |-> <<50, 50>>],
                      [distance |-> 1200, position |-> <<80, 40>>]>>
    /\ wobs.result.num = 750 * wobs.result.den

VolumeApplied == last'.v_branch = "apply" /\ last'.d # None

\* The product of two fractions of 10000, truncated.
FracMul(a, b) == (a * b) \div 10000

\* Whether a volume x (hundredths of a percent) is (20 + 80 * n ^ 0.4) / 100
\* for n = m / 10000: with r = (x - 2000) / 8000, r ^ 5 = n ^ 2 up to the
\* truncation of the fixed-point products (4 parts in 10000).
OnPowerCurve(x, m) ==
    LET r == ((x - 2000) * 5) \div 4
        r5 == FracMul(FracMul(FracMul(FracMul(r, r), r), r), r)
    IN  Abs(r5 - FracMul(m, m)) <= 4

C30_AsStated ==
    [][(sm.is_running /\ ~sm'.is_running)
         => \/ sobs'.b_call # "none"
            \/ sobs'.v_call # "none"
            \/ sobs'.pauses > 0]_vars

\* C31 (as stated): a discrete gesture held on consecutive frames is
\* returned at most once for the whole hold, however long it lasts.
C31_AsStated ==
    hold.fc \in {3, 4, 5} => hold.emits <= 1

\* C32 (as stated): while a fist is held on consecutive frames,
\* toggle_gestures is returned (and gesture_active flipped) at most once,
\* for any hold duration, also with update_cooldown called in between.
C32_AsStated ==
    hold.fc = 0 => hold.emits <= 1

\* C33 (as stated): mute(), the call process_frame makes with the same
\* arguments on every tick on which media is paused, leaves the volume at
\* 0.0 whenever it reports success.
C33_AsStated ==
    [][(calls' = calls + 1 /\ acall'.on = "volume" /\ acall'.op = "mute"
          /\ acall'.ret)
         => vc'.current_volume = 0]_vars

C36_CooldownRegisteredTogether ==
    /\ gc.in_cooldown <=> gc.registered_gesture # NoGesture
    /\ gc.registered_gesture \in {NoGesture, "toggle_gestures"} \cup DiscreteKinds
    /\ gc.registered_finger_count =
          (CASE gc.registered_gesture = "toggle_gestures" -> 0
             [] gc.registered_gesture = "play_pause" -> 3
             [] gc.registered_gesture = "next_track" -> 4
             [] gc.registered_gesture = "prev_track" -> 5
             [] OTHER -> None)
    /\ gc.cooldown_start_time <= now

\* C36 witness: next_track is registered with four fingers in a cooldown
\* that began 2 s or more after construction.
C36_Witness ==
    /\ gc.in_cooldown /\ gc.registered_gesture = "next_track"
    /\ gc.registered_finger_count = 4
    /\ gc.cooldown_start_time >= cooldown_seconds


\* C37: under repeated set_brightness(v, smooth=True) with one in-domain
\* target v, every call leaves target_brightness = v and moves
\* current_brightness towards v without passing it; the value eventually
\* stops changing, at a distance from v below BRIGHTNESS_STEP /
\* BRIGHTNESS_SMOOTHING (the smoothing factor is kept in tenths).
SmoothedCallOk ==
    acall'.on = "brightness" =>
        /\ bc'.target_brightness = acall'.value
        /\ bc.current_brightness <= acall'.value =>
              /\ bc.current_brightness <= bc'.current_brightness
              /\ bc'.current_brightness <= acall'.value
        /\ bc.current_brightness >= acall'.value =>
              /\ bc.current_brightness >= bc'.current_brightness
              /\ bc'.current_brightness >= acall'.value

SmoothingSettled ==
    /\ acall.on = "brightness"
    /\ bc.target_brightness = acall.value
    /\ BRIGHTNESS_SMOOTHING * Abs(acall.value - bc.current_brightness)
          < 10 * BRIGHTNESS_STEP

C38_ModeCycle ==
    /\ sm.control_mode \in ControlModes
    /\ mobs.op = "on_mouse" =>
          IF mobs.event = "EVENT_LBUTTONDOWN" /\ mobs.inside /\ mobs.drawn
          THEN sm.control_mode =
                  (CASE mobs.from = "hybrid" -> "gesture"
                     [] mobs.from = "gesture" -> "head"
                     [] mobs.from = "head" -> "hybrid")
          ELSE sm.control_mode = mobs.from
    /\ Len(mobs.trail) >= 3 => sm.control_mode = mobs.trail[Len(mobs.trail) - 2]

\* C38 witness: the third click on the button has just brought the mode
\* back to hybrid.
C38_Witness ==
    /\ mobs.op = "on_mouse" /\ mobs.event = "EVENT_LBUTTONDOWN"
    /\ mobs.inside /\ mobs.drawn
    /\ Len(mobs.trail) >= 3 /\ mobs.from = "head" /\ sm.control_mode = "hybrid"

\* C39: called with the same distances at the same times, the brightness
\* gate and the volume gate take the same branch on every call and hold the
\* same last_distance, distance_stable_since and last_updated_distance;
\* neither ever takes the branch that returns after the stable duration
\* because the grace check fails, nor the branch that starts the timer
\* because distance_stable_since is unset.
C39_GatesAgree ==
    /\ last.b_branch = last.v_branch
    /\ bc.last_distance = vc.last_distance
    /\ bc.distance_stable_since = vc.distance_stable_since
    /\ bc.last_updated_distance = vc.last_updated_distance
    /\ last.b_branch \notin {"late_grace", "start"}
    /\ last.v_branch \notin {"late_grace", "start"}

\* C39 witness: both gates have applied a second distance on a call on
\* which only the volume write raised.
C39_Witness ==
    /\ last.b_branch = "apply" /\ last.v_branch = "apply"
    /\ last.b_from # None /\ last.v_from # None
    /\ last.b_ret /\ ~last.v_ret
    /\ bc.last_updated_distance = last.d /\ vc.last_updated_distance = last.d

\* C40: calculate_weighted_distance returns MAX_DETECTION_DISTANCE for an
\* empty list; for a non-empty list the total weight is strictly positive
\* and the value returned is neither below the smallest nor above the
\* largest distance of the list.
C40_AsStated ==
    wobs.op = "calculate_weighted_distance"
      => LET f == wobs.faces
             r == wobs.result
         IN  IF f = <<>>
             THEN r.num = 10 * MAX_DETECTION_DISTANCE * r.den /\ r.ulps = 0
             ELSE /\ SeqSum([i \in 1..Len(f) |-> WeightOf(f[i])]) > 0
                  /\ r = CalculateWeightedDistance(f)
                  /\ \E i \in 1..Len(f) :
                        \/ f[i].distance * r.den < r.num
                        \/ f[i].distance * r.den = r.num /\ r.ulps >= 0
                  /\ \E i \in 1..Len(f) :
                        \/ r.num < f[i].distance * r.den
                        \/ r.num = f[i].distance * r.den /\ r.ulps <= 0

=============================================================================
